---- MODULE Spec2Model ----
(***************************************************************************)
(* Credential store, platform switchboard and context resolver of the      *)
(* quant-cloud CLI (src/src/utils/config.ts, src/src/utils/context.ts,     *)
(* src/src/commands/login.ts, src/src/commands/logout.ts).                 *)
(*                                                                         *)
(* The credential file is the only durable state.  Every operation is a    *)
(* read-modify-write of that file; it is modelled as a function from the   *)
(* file before the call to the file after the call and the value returned. *)
(***************************************************************************)
EXTENDS Integers, Sequences, FiniteSets, TLC

VARIABLES file, now, last, lg, procs

vars == <<file, now, last, lg, procs>>

(***************************************************************************)
(* Bounds of the model.                                                    *)
(***************************************************************************)
\* number of platform ids the commands are run with
MaxPlatforms == 2
\* last instant of the clock
MaxTime == 1
\* depth of the deepest directory below the filesystem root
MaxDepth == 3
\* number of messages a logger is given
MaxMessages == 2

(***************************************************************************)
(* JavaScript values.  A missing property and the value undefined are both *)
(* the value UNDEF; records carry only the properties that are present.    *)
(***************************************************************************)
UNDEF == "<undefined>"

\* JavaScript truthiness of a string-or-undefined value  (!x is ~Truthy(x))
Truthy(x) == x # UNDEF /\ x # ""

\* property read  obj[k]
Get(obj, k) == IF k \in DOMAIN obj THEN obj[k] ELSE UNDEF

\* object spread  { ...a, ...b }
Spread(a, b) ==
  [k \in (DOMAIN a) \cup (DOMAIN b) |-> IF k \in DOMAIN b THEN b[k] ELSE a[k]]

\* JSON.stringify leaves out the properties whose value is undefined
DropUndefined(obj) == [k \in {j \in DOMAIN obj : obj[j] # UNDEF} |-> obj[k]]

\* a || b || c
Or3(a, b, c) == IF Truthy(a) THEN a ELSE IF Truthy(b) THEN b ELSE c

(***************************************************************************)
(* Strings whose characters the code inspects (hosts and the ids derived   *)
(* from them) are looked up in a table of their characters.                *)
(***************************************************************************)
Chars ==
  "https://dash.quantgov.cloud" :> <<"h", "t", "t", "p", "s", ":", "/", "/", "d", "a", "s", "h", ".", "q", "u", "a", "n", "t", "g", "o", "v", ".", "c", "l", "o", "u", "d">> @@
  "https://dashboard.quantcdn.io" :> <<"h", "t", "t", "p", "s", ":", "/", "/", "d", "a", "s", "h", "b", "o", "a", "r", "d", ".", "q", "u", "a", "n", "t", "c", "d", "n", ".", "i", "o">> @@
  "https://a.io" :> <<"h", "t", "t", "p", "s", ":", "/", "/", "a", ".", "i", "o">> @@
  "http://c:8" :> <<"h", "t", "t", "p", ":", "/", "/", "c", ":", "8">> @@
  "a.io" :> <<"a", ".", "i", "o">> @@
  "ftp://b" :> <<"f", "t", "p", ":", "/", "/", "b">> @@
  "" :> <<>> @@
  "a-io" :> <<"a", "-", "i", "o">> @@
  "c-8" :> <<"c", "-", "8">> @@
  "ftp---b" :> <<"f", "t", "p", "-", "-", "-", "b">>

\* the string with the given characters
Str(cs) == CHOOSE s \in DOMAIN Chars : Chars[s] = cs

\* the characters from..to of cs, as far as they exist
Slice(cs, from, to) ==
  LET hi == IF to > Len(cs) THEN Len(cs) ELSE to
  IN  [k \in 1..(hi - from + 1) |-> cs[from + k - 1]]

\* String.prototype.includes
Includes(cs, sub) ==
  \E i \in 0..(Len(cs) - Len(sub)) : Slice(cs, i + 1, i + Len(sub)) = sub

\* the characters [a-zA-Z0-9-] met in the table
AlnumDash ==
  {"a", "b", "c", "d", "e", "f", "g", "h", "i", "j", "k", "l", "m", "n", "o",
   "p", "q", "r", "s", "t", "u", "v", "w", "x", "y", "z",
   "0", "1", "2", "3", "4", "5", "6", "7", "8", "9", "-"}

\* length of the match of /https?:\/\// at offset i (0 when there is none)
ProtocolMatchAt(cs, i) ==
  IF Slice(cs, i + 1, i + 8) = <<"h", "t", "t", "p", "s", ":", "/", "/">> THEN 8
  ELSE IF Slice(cs, i + 1, i + 7) = <<"h", "t", "t", "p", ":", "/", "/">> THEN 7
  ELSE 0

\* host.replace(/https?:\/\//, '') : the leftmost match is removed
StripProtocol(cs) ==
  LET hits == {i \in 0..Len(cs) : ProtocolMatchAt(cs, i) > 0}
  IN  IF hits = {} THEN cs
      ELSE LET i == CHOOSE j \in hits : \A k \in hits : j <= k
           IN  Slice(cs, 1, i) \o Slice(cs, i + ProtocolMatchAt(cs, i) + 1, Len(cs))

\* .replace(/[^a-zA-Z0-9-]/g, '-') : every other character becomes a hyphen
Hyphenate(cs) == [i \in 1..Len(cs) |-> IF cs[i] \in AlnumDash THEN cs[i] ELSE "-"]

generatePlatformInfo(host) ==
  IF Includes(Chars[host], <<"q", "u", "a", "n", "t", "g", "o", "v", ".", "c", "l", "o", "u", "d">>)
  THEN [id |-> "quantgov", name |-> "QuantGov Cloud", host |-> host,
        description |-> "Government & Enterprise Platform"]
  ELSE IF Includes(Chars[host], <<"q", "u", "a", "n", "t", "c", "d", "n", ".", "i", "o">>)
  THEN [id |-> "quantcdn", name |-> "Quant Cloud", host |-> host,
        description |-> "Content Delivery Platform"]
  ELSE [id |-> Str(Hyphenate(StripProtocol(Chars[host]))), name |-> "Custom Endpoint",
        host |-> host, description |-> host]

(***************************************************************************)
(* The credential file  ~/.quant/credentials.                              *)
(*   [kind |-> "absent"]                    no file                        *)
(*   [kind |-> "garbage"]                   a file JSON.parse rejects      *)
(*   [kind |-> "unreadable"]                a file readFile cannot read    *)
(*   [kind |-> "json", fmt, shape, body]    a JSON document; fmt is its    *)
(*        layout ("pretty" is what JSON.stringify(x, null, 2) writes) and  *)
(*        shape is "multi" (an object with a truthy platforms property),   *)
(*        "legacy" (any other object) or "scalar" (null, a number, ...).   *)
(* A MultiPlatformConfig is [activePlatform, order, platforms]: platforms  *)
(* maps each key to its entry and order lists the keys as Object.keys does *)
(* (insertion order).  An entry  AuthConfig & {platformInfo}  is the pair  *)
(* [auth, platformInfo]; every AuthConfig property is a string (expiresAt  *)
(* an ISO timestamp, organizations the name of a list in OrganizationLists)*)
(***************************************************************************)
AbsentFile == [kind |-> "absent"]

GarbageFile == [kind |-> "garbage"]
\* a file that exists and cannot be read: fs.readFile rejects
UnreadableFile == [kind |-> "unreadable"]

JsonFile(fmt, shape, body) == [kind |-> "json", fmt |-> fmt, shape |-> shape, body |-> body]

EmptyConfig == [activePlatform |-> UNDEF, order |-> <<>>, platforms |-> <<>>]

Keys(cfg) == DOMAIN cfg.platforms

\* platforms[id] = entry, keeping the position of an existing key
PutEntry(cfg, id, entry) ==
  [cfg EXCEPT !.platforms = [k \in Keys(cfg) \cup {id} |-> IF k = id THEN entry ELSE cfg.platforms[k]],
              !.order = IF id \in Keys(cfg) THEN cfg.order ELSE Append(cfg.order, id)]

\* { ...authConfig, platformInfo }
MkEntry(authConfig, platformInfo) == [auth |-> authConfig, platformInfo |-> platformInfo]

\* delete platforms[id]
DeleteEntry(cfg, id) ==
  [cfg EXCEPT !.platforms = [k \in Keys(cfg) \ {id} |-> cfg.platforms[k]],
              !.order = SelectSeq(cfg.order, LAMBDA k : k # id)]

\* the file written by saveMultiPlatformConfig(config)
saveMultiPlatformConfig(config) ==
  JsonFile("pretty", "multi",
           [config EXCEPT !.platforms = [k \in Keys(config) |->
                                        MkEntry(DropUndefined(config.platforms[k].auth),
                                                config.platforms[k].platformInfo)]])

\* the file written by saveAuthConfig(config)
saveAuthConfig(config) == JsonFile("pretty", "legacy", DropUndefined(config))

\* loadAuthConfig(): the parsed document, or null
loadAuthConfig(f) ==
  IF f.kind # "json" \/ f.shape = "scalar" THEN [isNull |-> TRUE, auth |-> <<>>]
  ELSE IF f.shape = "legacy" THEN [isNull |-> FALSE, auth |-> f.body]
  ELSE [isNull |-> FALSE, auth |-> <<>>]

\* migrateSinglePlatformConfig(authConfig), for a host that is a string
migrateSinglePlatformConfig(authConfig) ==
  LET platformInfo == generatePlatformInfo(authConfig.host)
      multiConfig == [activePlatform |-> platformInfo.id,
                      order |-> <<platformInfo.id>>,
                      platforms |-> (platformInfo.id :>
                                       MkEntry(authConfig, platformInfo))]
  IN  [cfg |-> multiConfig, file |-> saveMultiPlatformConfig(multiConfig)]

\* loadMultiPlatformConfig that creates the empty store when it finds no
\* readable JSON
loadMultiPlatformConfigCreatesFile(f) ==
  IF f.kind # "json" THEN [cfg |-> EmptyConfig, file |-> saveMultiPlatformConfig(EmptyConfig)]
  ELSE IF f.shape = "multi" THEN [cfg |-> f.body, file |-> f]
  ELSE IF f.shape = "legacy" /\ Get(f.body, "host") # UNDEF
       THEN migrateSinglePlatformConfig(f.body)
  ELSE [cfg |-> EmptyConfig, file |-> f]

\* loadMultiPlatformConfig(): the config returned and the file it leaves.
\* Every exception (no file, bad JSON, a property read on null, host.includes
\* on a host that is not a string) ends in the catch clause.
loadMultiPlatformConfig(f) ==
  IF f.kind # "json" THEN [cfg |-> EmptyConfig, file |-> f]
  ELSE IF f.shape = "multi" THEN [cfg |-> f.body, file |-> f]
  ELSE IF f.shape = "legacy" /\ Get(f.body, "host") # UNDEF
       THEN migrateSinglePlatformConfig(f.body)
  ELSE [cfg |-> EmptyConfig, file |-> f]

\* the value of a call: what it returned or that it threw, and the file it left
Returned(f, v) == [file |-> f, threw |-> FALSE, result |-> v]

Threw(f, msg) == [file |-> f, threw |-> TRUE, result |-> msg]

getActivePlatformConfig(f) ==
  LET active(l) ==
        LET multiConfig == l.cfg
        IN  IF ~Truthy(multiConfig.activePlatform)
            THEN Returned(l.file, [isNull |-> TRUE, auth |-> <<>>])
            ELSE IF multiConfig.activePlatform \notin Keys(multiConfig)
            THEN Returned(l.file, [isNull |-> TRUE, auth |-> <<>>])
            ELSE Returned(l.file, [isNull |-> FALSE,
                                   auth |-> multiConfig.platforms[multiConfig.activePlatform].auth])
  IN  active(loadMultiPlatformConfig(f))

\* savePlatformConfig without the activation of the first platform
savePlatformConfigNeverActivates(f, platformId, authConfig, platformInfo) ==
  LET l == loadMultiPlatformConfig(f)
  IN  Returned(saveMultiPlatformConfig(
                 PutEntry(l.cfg, platformId, MkEntry(authConfig, platformInfo))), UNDEF)

\* savePlatformConfig activating the platform it saves, whatever the store holds
savePlatformConfigAlwaysActivates(f, platformId, authConfig, platformInfo) ==
  LET l == loadMultiPlatformConfig(f)
      c1 == PutEntry(l.cfg, platformId, MkEntry(authConfig, platformInfo))
  IN  Returned(saveMultiPlatformConfig([c1 EXCEPT !.activePlatform = platformId]), UNDEF)

savePlatformConfig(f, platformId, authConfig, platformInfo) ==
  LET l == loadMultiPlatformConfig(f)
      c1 == PutEntry(l.cfg, platformId, MkEntry(authConfig, platformInfo))
      c2 == IF ~Truthy(c1.activePlatform) \/ Len(c1.order) = 1
            THEN [c1 EXCEPT !.activePlatform = platformId]
            ELSE c1
  IN  Returned(saveMultiPlatformConfig(c2), UNDEF)

\* switchPlatform writing the config back before it reports an unknown id
switchPlatformAlwaysSaves(f, platformId) ==
  LET l == loadMultiPlatformConfig(f)
  IN  IF platformId \notin Keys(l.cfg) THEN Returned(saveMultiPlatformConfig(l.cfg), FALSE)
      ELSE Returned(saveMultiPlatformConfig([l.cfg EXCEPT !.activePlatform = platformId]), TRUE)

switchPlatform(f, platformId) ==
  LET l == loadMultiPlatformConfig(f)
  IN  IF platformId \notin Keys(l.cfg) THEN Returned(l.file, FALSE)
      ELSE Returned(saveMultiPlatformConfig([l.cfg EXCEPT !.activePlatform = platformId]), TRUE)

listPlatforms(f) ==
  LET l == loadMultiPlatformConfig(f)
      multiConfig == l.cfg
  IN  Returned(l.file,
               [i \in 1..Len(multiConfig.order) |->
                  [id |-> multiConfig.order[i],
                   info |-> multiConfig.platforms[multiConfig.order[i]].platformInfo,
                   isActive |-> multiConfig.activePlatform = multiConfig.order[i]]])

\* removePlatform without the reassignment of activePlatform
removePlatformStalePointer(f, platformId) ==
  LET l == loadMultiPlatformConfig(f)
  IN  IF platformId \notin Keys(l.cfg) THEN Returned(l.file, FALSE)
      ELSE Returned(saveMultiPlatformConfig(DeleteEntry(l.cfg, platformId)), TRUE)

\* removePlatform clearing activePlatform instead of promoting a remaining entry
removePlatformClearsPointer(f, platformId) ==
  LET l == loadMultiPlatformConfig(f)
      c1 == DeleteEntry(l.cfg, platformId)
      c2 == IF l.cfg.activePlatform = platformId THEN [c1 EXCEPT !.activePlatform = UNDEF] ELSE c1
  IN  IF platformId \notin Keys(l.cfg) THEN Returned(l.file, FALSE)
      ELSE Returned(saveMultiPlatformConfig(c2), TRUE)

removePlatform(f, platformId) ==
  LET l == loadMultiPlatformConfig(f)
      c1 == DeleteEntry(l.cfg, platformId)
      c2 == IF l.cfg.activePlatform = platformId
            THEN [c1 EXCEPT !.activePlatform = IF Len(c1.order) > 0 THEN c1.order[1] ELSE UNDEF]
            ELSE c1
  IN  IF platformId \notin Keys(l.cfg) THEN Returned(l.file, FALSE)
      ELSE Returned(saveMultiPlatformConfig(c2), TRUE)

\* saveActivePlatformConfig storing the updates in place of the entry's fields
saveActivePlatformConfigReplaces(f, updates) ==
  LET l == loadMultiPlatformConfig(f)
      multiConfig == l.cfg
  IN  IF ~Truthy(multiConfig.activePlatform) THEN Threw(l.file, "No active platform set")
      ELSE IF multiConfig.activePlatform \notin Keys(multiConfig)
           THEN Threw(l.file, "Active platform configuration not found")
      ELSE Returned(saveMultiPlatformConfig(
                      PutEntry(multiConfig, multiConfig.activePlatform,
                               MkEntry(updates,
                                       multiConfig.platforms[multiConfig.activePlatform].platformInfo))),
                    UNDEF)

saveActivePlatformConfig(f, updates) ==
  LET save(l) ==
        LET multiConfig == l.cfg
        IN  IF ~Truthy(multiConfig.activePlatform) THEN Threw(l.file, "No active platform set")
            ELSE IF multiConfig.activePlatform \notin Keys(multiConfig)
                 THEN Threw(l.file, "Active platform configuration not found")
            ELSE LET currentPlatformConfig == multiConfig.platforms[multiConfig.activePlatform]
                     platformInfo == currentPlatformConfig.platformInfo
                     updatedAuthConfig == Spread(currentPlatformConfig.auth, updates)
                 IN  Returned(saveMultiPlatformConfig(
                                PutEntry(multiConfig, multiConfig.activePlatform,
                                         MkEntry(updatedAuthConfig, platformInfo))),
                              UNDEF)
  IN  save(loadMultiPlatformConfig(f))

(***************************************************************************)
(* Timestamps.                                                             *)
(***************************************************************************)
\* ISO timestamps of the instants 0, 1, 2, ... (one instant is ExpiresIn seconds)
Instants == <<"1970-01-01T00:00:00.000Z", "1970-01-01T01:00:00.000Z",
              "1970-01-01T02:00:00.000Z", "1970-01-01T03:00:00.000Z",
              "1970-01-01T04:00:00.000Z", "1970-01-01T05:00:00.000Z">>

\* new Date(ms).toISOString()
toISOString(t) == Instants[t + 1]

\* new Date(iso), as an instant; an unreadable date is NaN, here -1
DateOf(iso) ==
  IF \E i \in 1..Len(Instants) : Instants[i] = iso
  THEN (CHOOSE i \in 1..Len(Instants) : Instants[i] = iso) - 1
  ELSE -1

isTokenExpired(auth, t) ==
  IF ~Truthy(Get(auth, "expiresAt")) THEN FALSE
  ELSE DateOf(auth.expiresAt) >= 0 /\ t >= DateOf(auth.expiresAt)

(***************************************************************************)
(* Project config (.quant.yml).  The nearest project file is               *)
(*   [kind |-> "none"]      no file found                                  *)
(*   [kind |-> "invalid"]   a file yaml.load rejects                       *)
(*   [kind |-> "scalar"]    an empty file or a document that is no object  *)
(*   [kind |-> "object", body]   a mapping; each value is [t, v] with t    *)
(*                               its typeof and v its text                 *)
(***************************************************************************)
YamlTruthy(val) ==
  CASE val.t = "string" -> val.v # ""
    [] val.t = "number" -> val.v # "0"
    [] val.t = "boolean" -> val.v = "true"
    [] OTHER -> TRUE

RecognizedKeys == {"platform", "org", "app", "env"}

\* loadProjectConfig without the typeof tests
loadProjectConfigAnyType(doc) ==
  IF doc.kind # "object" THEN <<>>
  ELSE [k \in {j \in RecognizedKeys \cap DOMAIN doc.body :
                 YamlTruthy(doc.body[j])} |-> doc.body[k].v]

loadProjectConfig(doc) ==
  IF doc.kind # "object" THEN <<>>
  ELSE [k \in {j \in RecognizedKeys \cap DOMAIN doc.body :
                 YamlTruthy(doc.body[j]) /\ doc.body[j].t = "string"} |-> doc.body[k].v]

getProjectConfig(doc) == IF doc.kind = "none" THEN <<>> ELSE loadProjectConfig(doc)

(***************************************************************************)
(* The search for .quant.yml.  Only the directories on the path from the   *)
(* filesystem root to the start directory matter: directory d is d levels  *)
(* below the root, and fs[d] tells whether it holds a .quant.yml and a     *)
(* .git entry.  A path found is given by its directory.                    *)
(***************************************************************************)
\* resolve('/')
rootDir == 0

\* dirname(dir)
dirname(dir) == IF dir = rootDir THEN rootDir ELSE dir - 1

\* the null result
NoPath == -1

RECURSIVE findProjectConfigFile(_, _)
\* the while loop of findProjectConfigFile, from currentDir on
findProjectConfigFile(fs, currentDir) ==
  IF currentDir = rootDir THEN NoPath
  ELSE IF fs[currentDir].config THEN currentDir
  ELSE IF fs[currentDir].git THEN NoPath
  ELSE IF dirname(currentDir) = currentDir THEN NoPath
  ELSE findProjectConfigFile(fs, dirname(currentDir))

(***************************************************************************)
(* Context resolver.                                                       *)
(***************************************************************************)
\* the message of the error thrown, without its back quotes
NotAuthenticated == "Not authenticated. Run quant-cloud login to authenticate."

\* resolveEffectiveContext taking host and token from the platform that
\* --platform or the project config names
resolveEffectiveContextNamedPlatform(f, overrides, doc) ==
  LET l == loadMultiPlatformConfig(f)
      projectConfig == getProjectConfig(doc)
      named == Or3(Get(overrides, "platform"), Get(projectConfig, "platform"),
                   l.cfg.activePlatform)
      auth == IF named \in Keys(l.cfg) THEN l.cfg.platforms[named].auth ELSE <<>>
  IN  IF ~Truthy(Get(auth, "token")) THEN Threw(l.file, NotAuthenticated)
      ELSE Returned(l.file,
             [token |-> Get(auth, "token"),
              host |-> Get(auth, "host"),
              email |-> Get(auth, "email"),
              expiresAt |-> Get(auth, "expiresAt"),
              organizations |-> Get(auth, "organizations"),
              activeOrganization |-> Or3(Get(overrides, "org"), Get(projectConfig, "org"),
                                         Get(auth, "activeOrganization")),
              activeApplication |-> Or3(Get(overrides, "app"), Get(projectConfig, "app"),
                                        Get(auth, "activeApplication")),
              activeEnvironment |-> Or3(Get(overrides, "env"), Get(projectConfig, "env"),
                                        Get(auth, "activeEnvironment"))])

\* resolveEffectiveContext refusing a token whose expiresAt has elapsed
resolveEffectiveContextRejectsExpired(f, overrides, doc) ==
  LET g == getActivePlatformConfig(f)
      auth == g.result.auth
      projectConfig == getProjectConfig(doc)
  IN  IF g.result.isNull \/ ~Truthy(Get(auth, "token")) \/ isTokenExpired(auth, now)
      THEN Threw(g.file, NotAuthenticated)
      ELSE Returned(g.file,
             [token |-> Get(auth, "token"),
              host |-> Get(auth, "host"),
              email |-> Get(auth, "email"),
              expiresAt |-> Get(auth, "expiresAt"),
              organizations |-> Get(auth, "organizations"),
              activeOrganization |-> Or3(Get(overrides, "org"), Get(projectConfig, "org"),
                                         Get(auth, "activeOrganization")),
              activeApplication |-> Or3(Get(overrides, "app"), Get(projectConfig, "app"),
                                        Get(auth, "activeApplication")),
              activeEnvironment |-> Or3(Get(overrides, "env"), Get(projectConfig, "env"),
                                        Get(auth, "activeEnvironment"))])

resolveEffectiveContext(f, overrides, doc) ==
  LET resolve(g, projectConfig) ==
        LET auth == g.result.auth
        IN  IF g.result.isNull \/ ~Truthy(Get(auth, "token")) THEN Threw(g.file, NotAuthenticated)
            ELSE Returned(g.file,
                   [token |-> Get(auth, "token"),
                    host |-> Get(auth, "host"),
                    email |-> Get(auth, "email"),
                    expiresAt |-> Get(auth, "expiresAt"),
                    organizations |-> Get(auth, "organizations"),
                    activeOrganization |-> Or3(Get(overrides, "org"), Get(projectConfig, "org"),
                                               Get(auth, "activeOrganization")),
                    activeApplication |-> Or3(Get(overrides, "app"), Get(projectConfig, "app"),
                                              Get(auth, "activeApplication")),
                    activeEnvironment |-> Or3(Get(overrides, "env"), Get(projectConfig, "env"),
                                              Get(auth, "activeEnvironment"))])
  IN  resolve(getActivePlatformConfig(f), getProjectConfig(doc))

\* the messages of validateContext, without their back quotes
NoOrganization ==
  "No organization specified. Use --org or set active organization with qc org select."

NoApplication ==
  "No application specified. Use --app or set active application with qc app select."

NoEnvironment ==
  "No environment specified. Use --env or set active environment with qc env select."

\* validateContext failing for every absent field, required or not
validateContextRequiresAll(f, context, required) ==
  IF ~Truthy(context.activeOrganization) THEN Threw(f, NoOrganization)
  ELSE IF ~Truthy(context.activeApplication) THEN Threw(f, NoApplication)
  ELSE IF ~Truthy(context.activeEnvironment) THEN Threw(f, NoEnvironment)
  ELSE Returned(f, UNDEF)

validateContext(f, context, required) ==
  IF required.org /\ ~Truthy(context.activeOrganization) THEN Threw(f, NoOrganization)
  ELSE IF required.app /\ ~Truthy(context.activeApplication) THEN Threw(f, NoApplication)
  ELSE IF required.env /\ ~Truthy(context.activeEnvironment) THEN Threw(f, NoEnvironment)
  ELSE Returned(f, UNDEF)

(***************************************************************************)
(* Login and logout.                                                       *)
(***************************************************************************)
\* the organization lists a user-info reply or a stored record can carry
OrganizationLists ==
  ("[]" :> <<>>) @@
  ("[acme]" :> <<[id |-> 1, name |-> "Acme", machine_name |-> "acme"]>>) @@
  ("[beta,acme]" :> <<[id |-> 2, name |-> "Beta", machine_name |-> "beta"],
                      [id |-> 1, name |-> "Acme", machine_name |-> "acme"]>>)

\* handleLogin: service is the chosen host, outcome how the OAuth exchange ends,
\* tokenData and userInfo what the platform answers
handleLogin(f, t, service, outcome, tokenData, userInfo) ==
  LET existingAuth == loadAuthConfig(f)
      organizations == OrganizationLists[userInfo.organizations]
      authConfig == [token |-> tokenData.access_token,
                     refreshToken |-> tokenData.refresh_token,
                     expiresAt |-> toISOString(t + tokenData.expires_in),
                     email |-> userInfo.email,
                     host |-> service,
                     organizations |-> userInfo.organizations,
                     activeOrganization |-> IF Len(organizations) > 0
                                            THEN organizations[1].machine_name
                                            ELSE UNDEF]
  IN  IF /\ ~existingAuth.isNull
         /\ Truthy(Get(existingAuth.auth, "token"))
         /\ ~isTokenExpired(existingAuth.auth, t)
      THEN Returned(f, "Already authenticated")
      ELSE IF outcome # "success" THEN Threw(f, outcome)
      ELSE Returned(saveAuthConfig(authConfig), "Authentication successful")

\* a logout that signs out of the active platform only
handleLogoutActiveOnly(f, confirmed) ==
  IF f.kind = "absent" THEN Returned(f, "Not currently logged in.")
  ELSE IF ~confirmed THEN Returned(f, "Logout cancelled.")
  ELSE LET multiConfig == loadMultiPlatformConfig(f).cfg
       IN  IF Truthy(multiConfig.activePlatform)
           THEN Returned(removePlatform(f, multiConfig.activePlatform).file,
                         "Successfully logged out")
           ELSE Returned(f, "Successfully logged out")

handleLogout(f, confirmed) ==
  IF f.kind = "absent" THEN Returned(f, "Not currently logged in.")
  ELSE IF ~confirmed THEN Returned(f, "Logout cancelled.")
  ELSE Returned(AbsentFile, "Successfully logged out")

(***************************************************************************)
(* The login flow step by step.  lg is the login process of one attempt:   *)
(*   pc        where handleLogin stands: "idle", "waiting" (on the promise *)
(*             of startCallbackServer), "exchange", "userinfo", "done"     *)
(*             (exit 0 or already authenticated) or "failed" (exit 1)      *)
(*   server    the callback listener: "none", "binding" (listen called),   *)
(*             "listening", "closed", or "failed" (it never listened)      *)
(*   browser   "none", "opened", or "failed" (open rejected)               *)
(*   printed   the authorization URL has been printed                      *)
(*   timer     the five-minute timer: "none", "armed", "fired"             *)
(*   promise   the promise of startCallbackServer: "none", "pending",      *)
(*             "resolved" or "rejected", with its value (code or message)  *)
(*   req       the last request the listener handled while listening, and  *)
(*             response the status it was answered with ("none": the       *)
(*             handler wrote no response)                                  *)
(*   late      the last request handled after server.close(), on a         *)
(*             connection accepted before it (close keeps those open)      *)
(*   trace     the milestones passed, in order                             *)
(*   start     the credential file when the attempt began                  *)
(*   pkce      the PKCE challenge generated for the attempt                *)
(*   authUrl   the query parameters of the authorization URL               *)
(*   tokenRequest   the form body posted to the token endpoint             *)
(***************************************************************************)
NoRequest == [path |-> UNDEF, code |-> UNDEF, state |-> UNDEF, error |-> UNDEF]

NoTokenData == [access_token |-> UNDEF, refresh_token |-> UNDEF, expires_in |-> 0]

NoLogin ==
  [pc |-> "idle", service |-> UNDEF, expectedState |-> UNDEF, server |-> "none",
   browser |-> "none", printed |-> FALSE, timer |-> "none", promise |-> "none",
   value |-> UNDEF, req |-> NoRequest, trace |-> <<>>, start |-> AbsentFile,
   tokenData |-> NoTokenData, result |-> UNDEF,
   pkce |-> <<>>, authUrl |-> <<>>, tokenRequest |-> <<>>,
   response |-> "none", late |-> NoRequest]

\* randomBytes(16).toString('hex') of this attempt
GeneratedState == "st-1"

\* a promise that every resolve and reject settles anew
SettleAgain(l, how, v) == [l EXCEPT !.promise = how, !.value = v]

\* resolve(v) or reject(v): only the first settlement of a promise counts
Settle(l, how, v) ==
  IF l.promise = "pending" THEN [l EXCEPT !.promise = how, !.value = v] ELSE l

\* server.close()
CloseServer(l) ==
  [l EXCEPT !.server = IF l.server \in {"binding", "listening"} THEN "closed" ELSE l.server]

\* startCallbackServer printing the URL and opening the browser right after
\* the call of listen, without waiting for its callback
startCallbackServerOpensBrowser(l, expectedState) ==
  [l EXCEPT !.expectedState = expectedState, !.server = "binding",
            !.timer = "armed", !.promise = "pending",
            !.printed = TRUE, !.browser = "opened"]

\* the executor of startCallbackServer: createServer, listen, on('error'),
\* setTimeout; the browser is opened in the listen callback, not here
startCallbackServer(l, expectedState) ==
  [l EXCEPT !.expectedState = expectedState, !.server = "binding",
            !.timer = "armed", !.promise = "pending"]

\* existingAuth && existingAuth.token && !isTokenExpired(existingAuth)
alreadyAuthenticated(f, t) ==
  LET existingAuth == loadAuthConfig(f)
  IN  /\ ~existingAuth.isNull
      /\ Truthy(Get(existingAuth.auth, "token"))
      /\ ~isTokenExpired(existingAuth.auth, t)

\* createHash('sha256').update(codeVerifier).digest('base64url'): a digest
\* per verifier, different verifiers having different digests
S256 == ("v-1" :> "h-1") @@ ("v-2" :> "h-2")

\* generatePKCE(), codeVerifier being the randomBytes(32) it draws
generatePKCE(codeVerifier) ==
  [codeVerifier |-> codeVerifier, codeChallenge |-> S256[codeVerifier],
   codeChallengeMethod |-> "S256"]

\* http://localhost:${callbackPort}/callback with the default port
callbackUrl == "http://localhost:8090/callback"

\* the search parameters of generateAuthUrl(...)
generateAuthUrl(host, redirectUri, clientId, scope, state, pkce) ==
  [host |-> host, client_id |-> clientId, redirect_uri |-> redirectUri,
   response_type |-> "code", scope |-> scope, state |-> state,
   code_challenge |-> pkce.codeChallenge,
   code_challenge_method |-> pkce.codeChallengeMethod]

\* handleLogin up to its wait for the callback
beginLogin(f, l, t, service, codeVerifier) ==
  IF alreadyAuthenticated(f, t)
  THEN [l EXCEPT !.pc = "done", !.start = f, !.result = "Already authenticated"]
  ELSE LET pkce == generatePKCE(codeVerifier)
           state == GeneratedState
           authUrl == generateAuthUrl(service, callbackUrl, "quant-cli", "full_access",
                                      state, pkce)
       IN  startCallbackServer([l EXCEPT !.pc = "waiting", !.start = f, !.service = service,
                                         !.pkce = pkce, !.authUrl = authUrl],
                               state)

\* the callback of server.listen: the URL is printed and open(authUrl) called;
\* a rejection of open is only warned about
onListening(l, opened) ==
  [l EXCEPT !.server = "listening", !.printed = TRUE,
            !.browser = IF opened THEN "opened" ELSE "failed"]

\* server.on('error') with EADDRINUSE
onServerError(l) ==
  Settle([l EXCEPT !.server = "failed"], "rejected", "Port is already in use")

\* the request handler without the comparison of state with expectedState
onRequestSkipsStateCheck(l, req) ==
  LET l1 == [l EXCEPT !.req = req, !.response = "none"]
  IN  IF req.path # "/callback" THEN l1
      ELSE IF Truthy(req.error)
           THEN Settle(CloseServer([l1 EXCEPT !.response = "400"]),
                       "rejected", "OAuth error: " \o req.error)
      ELSE IF Truthy(req.code)
           THEN Settle(CloseServer([l1 EXCEPT !.response = "200",
                                              !.trace = Append(l.trace, "code")]),
                       "resolved", req.code)
      ELSE l1

\* the request handler of the listener
onRequest(l, req) ==
  LET l1 == [l EXCEPT !.req = req, !.response = "none"]
  IN  IF req.path # "/callback" THEN l1
      ELSE IF Truthy(req.error)
           THEN Settle(CloseServer([l1 EXCEPT !.response = "400"]),
                       "rejected", "OAuth error: " \o req.error)
      ELSE IF req.state # l.expectedState
           THEN Settle(CloseServer([l1 EXCEPT !.response = "400"]),
                       "rejected", "Invalid state parameter")
      ELSE IF Truthy(req.code)
           THEN Settle(CloseServer([l1 EXCEPT !.response = "200",
                                              !.trace = Append(l.trace, "code")]),
                       "resolved", req.code)
      ELSE l1

\* the timer callback rejecting the wait without closing the listener
onTimeoutKeepsListening(l) ==
  Settle([l EXCEPT !.timer = "fired"], "rejected", "Authentication timeout")

\* the callback of setTimeout(..., 300000)
onTimeout(l) ==
  Settle(CloseServer([l EXCEPT !.timer = "fired"]), "rejected", "Authentication timeout")

\* handleLogin resumed by the settled promise: on with the code, or into catch
awaitCallback(l) ==
  IF l.promise = "resolved" /\ Truthy(l.value) THEN [l EXCEPT !.pc = "exchange"]
  ELSE IF l.promise = "resolved"
       THEN [l EXCEPT !.pc = "failed", !.result = "Failed to receive authorization code"]
  ELSE [l EXCEPT !.pc = "failed", !.result = l.value]

\* the AuthConfig assembled from the token reply and the user info
assembleAuthConfig(t, service, tokenData, userInfo) ==
  LET organizations == OrganizationLists[userInfo.organizations]
  IN  [token |-> tokenData.access_token,
       refreshToken |-> tokenData.refresh_token,
       expiresAt |-> toISOString(t + tokenData.expires_in),
       email |-> userInfo.email,
       host |-> service,
       organizations |-> userInfo.organizations,
       activeOrganization |-> IF Len(organizations) > 0
                              THEN organizations[1].machine_name
                              ELSE UNDEF]

\* the body exchangeCodeForToken(code, codeVerifier, host, callbackUrl,
\* clientId) posts to /oauth/token
tokenRequestBody(code, codeVerifier, host, redirectUri, clientId) ==
  [host |-> host, grant_type |-> "authorization_code", client_id |-> clientId,
   code |-> code, redirect_uri |-> redirectUri, code_verifier |-> codeVerifier]

\* the token exchange saving the token as soon as it has it, before the user
\* info is fetched
exchangeCodeForTokenSavesToken(f, l, reply) ==
  LET sent == [l EXCEPT !.tokenRequest =
                 tokenRequestBody(l.value, l.pkce.codeVerifier, l.service, callbackUrl, "quant-cli")]
  IN  IF ~reply.ok
      THEN [file |-> f, lg |-> [sent EXCEPT !.pc = "failed", !.result = "Token exchange failed"]]
      ELSE [file |-> saveAuthConfig([token |-> reply.tokenData.access_token, host |-> l.service]),
            lg |-> [sent EXCEPT !.pc = "userinfo", !.tokenData = reply.tokenData,
                                !.trace = Append(l.trace, "token")]]

\* the token exchange posting the challenge in place of the verifier
exchangeCodeForTokenSendsChallenge(f, l, reply) ==
  LET sent == [l EXCEPT !.tokenRequest =
                 tokenRequestBody(l.value, l.pkce.codeChallenge, l.service, callbackUrl, "quant-cli")]
  IN  IF ~reply.ok
      THEN [file |-> f, lg |-> [sent EXCEPT !.pc = "failed", !.result = "Token exchange failed"]]
      ELSE [file |-> f,
            lg |-> [sent EXCEPT !.pc = "userinfo", !.tokenData = reply.tokenData,
                                !.trace = Append(l.trace, "token")]]

\* handleLogin from the code to the token: the file and the process it leaves
exchangeCodeForToken(f, l, reply) ==
  LET sent == [l EXCEPT !.tokenRequest =
                 tokenRequestBody(l.value, l.pkce.codeVerifier, l.service, callbackUrl, "quant-cli")]
  IN  IF ~reply.ok
      THEN [file |-> f, lg |-> [sent EXCEPT !.pc = "failed", !.result = "Token exchange failed"]]
      ELSE [file |-> f,
            lg |-> [sent EXCEPT !.pc = "userinfo", !.tokenData = reply.tokenData,
                                !.trace = Append(l.trace, "token")]]

\* handleLogin from the token to the saved credential
getUserInfo(f, l, t, reply) ==
  IF ~reply.ok
  THEN [file |-> f, lg |-> [l EXCEPT !.pc = "failed", !.result = "Failed to get user info"]]
  ELSE [file |-> saveAuthConfig(assembleAuthConfig(t, l.service, l.tokenData, reply.userInfo)),
        lg |-> [l EXCEPT !.pc = "done", !.result = "Authentication successful",
                         !.trace = l.trace \o <<"userinfo", "write">>]]

(***************************************************************************)
(* Organization selection (qc org select [orgId]).                         *)
(***************************************************************************)
\* id.toString() of the organization ids
IdText == (1 :> "1") @@ (2 :> "2")

\* auth.organizations as a list (none when the property is missing)
CachedOrganizations(auth) ==
  IF Get(auth, "organizations") \in DOMAIN OrganizationLists
  THEN OrganizationLists[auth.organizations]
  ELSE <<>>

\* the indexes of the organizations that targetOrgId matches, by machine_name
\* or by numeric id
MatchingOrganizations(organizations, targetOrgId) ==
  {i \in 1..Len(organizations) :
     organizations[i].machine_name = targetOrgId \/ IdText[organizations[i].id] = targetOrgId}

\* org select switching the organization without clearing application and
\* environment
handleOrgSelectKeepsContext(f, orgId, selectedOrgId) ==
  LET select(g) ==
        LET auth == g.result.auth
            organizations == CachedOrganizations(auth)
            targetOrgId == IF Truthy(orgId) THEN orgId ELSE selectedOrgId
            hits == MatchingOrganizations(organizations, targetOrgId)
            switched(saved) ==
              IF saved.threw THEN Returned(saved.file, "Failed to switch organization")
              ELSE Returned(saved.file, "Switched to organization")
        IN  IF g.result.isNull \/ ~Truthy(Get(auth, "token"))
            THEN Returned(g.file, "Not authenticated")
            ELSE IF Len(organizations) = 0 THEN Returned(g.file, "No organizations available.")
            ELSE IF Len(organizations) = 1
                 THEN Returned(g.file, "Only one organization available - no switching needed.")
            ELSE IF hits = {} THEN Returned(g.file, "Organization not found")
            ELSE LET targetOrg == organizations[CHOOSE i \in hits : \A j \in hits : i <= j]
                 IN  CHOOSE r \in {switched(saved) : saved \in
                                 {saveActivePlatformConfig(g.file,
                                    [activeOrganization |-> targetOrg.machine_name])}} : TRUE
  IN  CHOOSE r \in {select(g) : g \in {getActivePlatformConfig(f)}} : TRUE

\* handleOrgSelect(orgId); selectedOrgId is the answer to the prompt shown when
\* no orgId is given; g is what getActivePlatformConfig returned and saved
\* what saveActivePlatformConfig did, each computed once
handleOrgSelect(f, orgId, selectedOrgId) ==
  LET select(g) ==
        LET auth == g.result.auth
            organizations == CachedOrganizations(auth)
            targetOrgId == IF Truthy(orgId) THEN orgId ELSE selectedOrgId
            hits == MatchingOrganizations(organizations, targetOrgId)
            switched(saved) ==
              IF saved.threw THEN Returned(saved.file, "Failed to switch organization")
              ELSE Returned(saved.file, "Switched to organization")
        IN  IF g.result.isNull \/ ~Truthy(Get(auth, "token"))
            THEN Returned(g.file, "Not authenticated")
            ELSE IF Len(organizations) = 0 THEN Returned(g.file, "No organizations available.")
            ELSE IF Len(organizations) = 1
                 THEN Returned(g.file, "Only one organization available - no switching needed.")
            ELSE IF hits = {} THEN Returned(g.file, "Organization not found")
            ELSE LET targetOrg == organizations[CHOOSE i \in hits : \A j \in hits : i <= j]
                 IN  CHOOSE r \in {switched(saved) : saved \in
                                 {saveActivePlatformConfig(g.file,
                                    [activeOrganization |-> targetOrg.machine_name,
                                     activeApplication |-> UNDEF,
                                     activeEnvironment |-> UNDEF])}} : TRUE
  IN  CHOOSE r \in {select(g) : g \in {getActivePlatformConfig(f)}} : TRUE

(***************************************************************************)
(* Application and environment selection (qc app select [appId],           *)
(* qc env select [envId]).  The platform's catalogue: the applications of  *)
(* each organization and the environments of each application.             *)
(***************************************************************************)
Applications == ("acme" :> <<"web", "api">>) @@ ("beta" :> <<"shop", "blog">>)

Environments ==
  ("web" :> <<"prod", "staging">>) @@ ("api" :> <<"dev">>) @@
  ("shop" :> <<"live", "test">>) @@ ("blog" :> <<>>)

\* client.getApplications({organizationId}): the list, or a throw
getApplications(organizationId, defaultOrganizationId) ==
  LET org == IF Truthy(organizationId) THEN organizationId ELSE defaultOrganizationId
  IN  IF ~Truthy(org) \/ org \notin DOMAIN Applications THEN [ok |-> FALSE, list |-> <<>>]
      ELSE [ok |-> TRUE, list |-> Applications[org]]

\* client.getEnvironments({organizationId, applicationId}): the list, or a throw
getEnvironments(organizationId, applicationId, defaultOrganizationId, defaultApplicationId) ==
  LET org == IF Truthy(organizationId) THEN organizationId ELSE defaultOrganizationId
      app == IF Truthy(applicationId) THEN applicationId ELSE defaultApplicationId
  IN  IF ~Truthy(org) \/ ~Truthy(app) \/ org \notin DOMAIN Applications
      THEN [ok |-> FALSE, list |-> <<>>]
      ELSE IF \A i \in 1..Len(Applications[org]) : Applications[org][i] # app
      THEN [ok |-> FALSE, list |-> <<>>]
      ELSE [ok |-> TRUE, list |-> Environments[app]]

\* handleAppSelect(appId, options); client is what ApiClient.create()
\* resolved from the store and the project config (its default organization
\* and application); answers are the prompts' answers (the index chosen in
\* each list, 0 for none) and whether the environment listing gets through
handleAppSelect(f, client, appId, options, answers) ==
  LET created(g) ==
        LET apps == getApplications(Get(options, "org"), client.result.activeOrganization)
            selectedAppId == IF answers.app \in 1..Len(apps.list)
                             THEN apps.list[answers.app] ELSE UNDEF
            targetAppId == IF Truthy(appId) THEN appId ELSE selectedAppId
            listed == IF answers.envsUp
                      THEN getEnvironments(Get(options, "org"), targetAppId,
                                           client.result.activeOrganization,
                                           client.result.activeApplication)
                      ELSE [ok |-> FALSE, list |-> <<>>]
            environments == listed.list
            \* the three saveActivePlatformConfig calls differ in activeEnvironment only:
            \* the catch of getEnvironments, the single environment, the prompt's answer
            activeEnvironment == IF ~listed.ok THEN UNDEF
                                 ELSE IF Len(environments) = 1 THEN environments[1]
                                 ELSE environments[answers.env]
            announce(saved) == Returned(saved.file, "Selected application: " \o targetAppId)
        IN  IF ~apps.ok THEN Returned(g.file, "Failed to switch application")
            ELSE IF Len(apps.list) = 0
                 THEN Returned(g.file, "No applications available in this organization.")
            ELSE IF Len(apps.list) = 1
                 THEN Returned(g.file, "Only one application available - no switching needed.")
            ELSE IF ~Truthy(targetAppId) THEN Returned(g.file, "No application selected.")
            ELSE IF \A i \in 1..Len(apps.list) : apps.list[i] # targetAppId
                 THEN Returned(g.file, "Application not found")
            ELSE IF listed.ok /\ Len(environments) = 0
                 THEN Returned(g.file, "Selected application: " \o targetAppId)
            ELSE CHOOSE r \in {announce(saved) : saved \in
                   {saveActivePlatformConfig(g.file,
                      [activeApplication |-> targetAppId,
                       activeEnvironment |-> activeEnvironment])}} : TRUE
      select(g) ==
        IF g.result.isNull \/ ~Truthy(Get(g.result.auth, "token"))
        THEN Returned(g.file, "Not authenticated")
        ELSE IF client.threw THEN Returned(g.file, "Failed to load the context")
        ELSE created(g)
  IN  CHOOSE r \in {select(g) : g \in {getActivePlatformConfig(f)}} : TRUE

\* handleEnvSelect(envId, options), with client as in handleAppSelect
handleEnvSelect(f, client, envId, options, answers) ==
  LET created(g) ==
        LET listed == getEnvironments(Get(options, "org"), Get(options, "app"),
                                      client.result.activeOrganization,
                                      client.result.activeApplication)
            environments == listed.list
            selectedEnvId == IF answers.env \in 1..Len(environments)
                             THEN environments[answers.env] ELSE UNDEF
            targetEnvId == IF Truthy(envId) THEN envId ELSE selectedEnvId
            switched(saved) ==
              IF saved.threw THEN Returned(saved.file, "Failed to switch environment")
              ELSE Returned(saved.file, "Selected environment: " \o targetEnvId)
        IN  IF ~listed.ok THEN Returned(g.file, "Failed to switch environment")
            ELSE IF Len(environments) = 0
                 THEN Returned(g.file, "No environments available for this application.")
            ELSE IF Len(environments) = 1
                 THEN Returned(g.file, "Only one environment available - no switching needed.")
            ELSE IF ~Truthy(targetEnvId) THEN Returned(g.file, "No environment selected.")
            ELSE IF \A i \in 1..Len(environments) : environments[i] # targetEnvId
                 THEN Returned(g.file, "Environment not found")
            ELSE CHOOSE r \in {switched(saved) : saved \in
                   {saveActivePlatformConfig(g.file,
                      [activeEnvironment |-> targetEnvId])}} : TRUE
      select(g) ==
        IF g.result.isNull \/ ~Truthy(Get(g.result.auth, "token"))
        THEN Returned(g.file, "Not authenticated")
        ELSE IF client.threw THEN Returned(g.file, "Failed to load the context")
        ELSE created(g)
  IN  CHOOSE r \in {select(g) : g \in {getActivePlatformConfig(f)}} : TRUE

(***************************************************************************)
(* Inputs of the operations.                                               *)
(***************************************************************************)
\* platform ids, each with the host it is derived from
AllIds == <<"quantcdn", "quantgov", "a-io", "c-8">>

HostOf ==
  ("quantcdn" :> "https://dashboard.quantcdn.io") @@
  ("quantgov" :> "https://dash.quantgov.cloud") @@
  ("a-io" :> "https://a.io") @@
  ("c-8" :> "http://c:8")

TokenOf ==
  ("quantcdn" :> "tok-cdn") @@ ("quantgov" :> "tok-gov") @@
  ("a-io" :> "tok-a") @@ ("c-8" :> "tok-c")

PlatformIds ==
  {AllIds[i] : i \in 1..(IF MaxPlatforms < Len(AllIds) THEN MaxPlatforms ELSE Len(AllIds))}

\* an id that is never stored
UnknownId == "nowhere"

AuthInputs(id) == {[token |-> TokenOf[id], host |-> HostOf[id]]}

Updates == {[activeOrganization |-> "acme"], [activeOrganization |-> UNDEF]}

LoginOutcomes ==
  {"success", "OAuth error", "Invalid state parameter", "Authentication timeout",
   "Token exchange failed", "Failed to get user info"}

TokenReplies == {[access_token |-> "tok-login", refresh_token |-> "refresh-1", expires_in |-> 1]}

UserInfoReplies == {[email |-> "u@x", organizations |-> o] : o \in {"[]", "[beta,acme]"}}

(***************************************************************************)
(* The logger (src/src/utils/logger.ts).  LogLevel is the object a numeric *)
(* TypeScript enum compiles to: each name maps to its number and each      *)
(* number, as a property key, back to its name.  A value is a number       *)
(* [t |-> "number", n] or a string [t |-> "string", s].                    *)
(***************************************************************************)
LogLevel ==
  [k \in {"DEBUG", "INFO", "WARN", "ERROR"} |->
     [t |-> "number",
      n |-> CASE k = "DEBUG" -> 0 [] k = "INFO" -> 1 [] k = "WARN" -> 2 [] k = "ERROR" -> 3]] @@
  [k \in {"0", "1", "2", "3"} |->
     [t |-> "string",
      s |-> CASE k = "0" -> "DEBUG" [] k = "1" -> "INFO" [] k = "2" -> "WARN" [] k = "3" -> "ERROR"]]

\* String.prototype.toUpperCase on the values LOG_LEVEL is given
toUpperCase ==
  ("" :> "") @@ ("debug" :> "DEBUG") @@ ("DEBUG" :> "DEBUG") @@ ("Info" :> "INFO") @@
  ("INFO" :> "INFO") @@ ("warn" :> "WARN") @@ ("WARN" :> "WARN") @@ ("error" :> "ERROR") @@
  ("ERROR" :> "ERROR") @@ ("verbose" :> "VERBOSE") @@ ("0" :> "0") @@ ("1" :> "1") @@
  ("2" :> "2") @@ ("3" :> "3")

\* a <= b of JavaScript: a string that spells no number converts to NaN, and
\* every comparison with NaN is false
LessOrEqual(a, b) == a.t = "number" /\ b.t = "number" /\ a.n <= b.n

\* new Logger(context) with process.env.LOG_LEVEL = env: its level
newLogger(env) ==
  LET envLevel == IF env = UNDEF THEN UNDEF ELSE toUpperCase[env]
  IN  IF Truthy(envLevel) /\ envLevel \in DOMAIN LogLevel THEN LogLevel[envLevel]
      ELSE LogLevel["INFO"]

\* the console method of each logger method
ConsoleOf ==
  ("DEBUG" :> "log") @@ ("INFO" :> "log") @@ ("WARN" :> "warn") @@ ("ERROR" :> "error")

\* logger.debug / info / warn / error: the console method called, or "none"
logMessage(level, severity) ==
  IF LessOrEqual(level, LogLevel[severity]) THEN ConsoleOf[severity] ELSE "none"

(***************************************************************************)
(* Two CLI processes on the one credential file.  Each store mutation is   *)
(*   const multiConfig = await loadMultiPlatformConfig();   (first step)   *)
(*   ... change multiConfig in memory ...                                  *)
(*   await saveMultiPlatformConfig(multiConfig);            (second step)  *)
(* and the event loop of the other process may run between the two awaits. *)
(* procs holds, for each process, where it stands ("idle", "loaded",       *)
(* "done"), the command it runs and the multiConfig it loaded; trace lists *)
(* the steps taken, start is the file the two processes found.             *)
(***************************************************************************)
Processes == {1, 2}

NoCommand == [op |-> "none"]

NoProcesses ==
  [pc |-> [p \in Processes |-> "idle"],
   cmd |-> [p \in Processes |-> NoCommand],
   multiConfig |-> [p \in Processes |-> EmptyConfig],
   trace |-> <<>>,
   start |-> AbsentFile]

\* the store mutation a command makes, run on the file f in one piece
Mutation(cmd, f) ==
  CASE cmd.op = "saveActivePlatformConfig" -> saveActivePlatformConfig(f, cmd.updates)
    [] cmd.op = "savePlatformConfig" ->
         savePlatformConfig(f, cmd.platformId, cmd.authConfig,
                            generatePlatformInfo(cmd.authConfig.host))
    [] cmd.op = "switchPlatform" -> switchPlatform(f, cmd.platformId)

\* the multiConfig a process holds in memory after its load; no write of
\* saveMultiPlatformConfig equals it, for that always writes the pretty layout
InMemory(multiConfig) == JsonFile("compact", "multi", multiConfig)

\* the second step with a fresh load of the file before the change
commitReloads(f, cmd, multiConfig) == Mutation(cmd, f).file

\* the second step of a mutation: the rest of the function runs on the
\* multiConfig loaded in the first step, and the file is what it writes (or f,
\* the file as it is by then, when the function returns or throws unsaved)
commit(f, cmd, multiConfig) ==
  LET written == Mutation(cmd, InMemory(multiConfig)).file
  IN  IF written = InMemory(multiConfig) THEN f ELSE written

(***************************************************************************)
(* The operations as steps.  last records the call just made: its name,    *)
(* its arguments, what it returned or threw, and the file before it.       *)
(***************************************************************************)
Call(op, args, r) ==
  /\ file' = r.file
  /\ last' = [op |-> op, args |-> args, threw |-> r.threw, result |-> r.result, before |-> file]
  /\ UNCHANGED <<now, lg, procs>>

NoCall(f) == [op |-> "none", args |-> <<>>, threw |-> FALSE, result |-> UNDEF, before |-> f]

Load ==
  LET l == loadMultiPlatformConfig(file)
  IN  Call("load", <<>>, Returned(l.file, l.cfg))

GetActivePlatformConfig == Call("getActivePlatformConfig", <<>>, getActivePlatformConfig(file))

SavePlatformConfig ==
  \E id \in PlatformIds : \E authConfig \in AuthInputs(id) :
    Call("savePlatformConfig", [platformId |-> id, authConfig |-> authConfig],
         savePlatformConfig(file, id, authConfig, generatePlatformInfo(authConfig.host)))

SwitchPlatform ==
  \E id \in PlatformIds \cup {UnknownId} :
    Call("switchPlatform", [platformId |-> id], switchPlatform(file, id))

ListPlatforms == Call("listPlatforms", <<>>, listPlatforms(file))

RemovePlatform ==
  \E id \in PlatformIds \cup {UnknownId} :
    Call("removePlatform", [platformId |-> id], removePlatform(file, id))

SaveActivePlatformConfig ==
  \E updates \in Updates :
    Call("saveActivePlatformConfig", [updates |-> updates], saveActivePlatformConfig(file, updates))

Login ==
  \E id \in PlatformIds, outcome \in LoginOutcomes :
    \E tokenData \in TokenReplies, userInfo \in UserInfoReplies :
      Call("login", [service |-> HostOf[id], outcome |-> outcome, at |-> now],
           handleLogin(file, now, HostOf[id], outcome, tokenData, userInfo))

Logout ==
  \E confirmed \in BOOLEAN :
    Call("logout", [confirmed |-> confirmed], handleLogout(file, confirmed))

Tick ==
  /\ now < MaxTime
  /\ now' = now + 1
  /\ UNCHANGED <<file, last, lg, procs>>

Init ==
  /\ file = AbsentFile
  /\ now = 0
  /\ last = NoCall(file)
  /\ lg = NoLogin
  /\ procs = NoProcesses

Next ==
  \/ SavePlatformConfig
  \/ SwitchPlatform
  \/ ListPlatforms
  \/ RemovePlatform
  \/ SaveActivePlatformConfig
  \/ Login
  \/ Logout
  \/ Tick

Spec == Init /\ [][Next]_vars

(***************************************************************************)
(* Credential files found on disk: written by any version of the CLI or    *)
(* edited by hand.                                                         *)
(***************************************************************************)
StoredEntry(id, extra) ==
  MkEntry(Spread([token |-> TokenOf[id], host |-> HostOf[id]], extra),
          generatePlatformInfo(HostOf[id]))

FullContext ==
  [email |-> "u@x", expiresAt |-> toISOString(0), organizations |-> "[acme]",
   activeOrganization |-> "s-org", activeApplication |-> "s-app", activeEnvironment |-> "s-env"]

PersistedConfigs ==
  { EmptyConfig,
    [activePlatform |-> "quantcdn", order |-> <<"quantcdn">>,
     platforms |-> ("quantcdn" :> StoredEntry("quantcdn", FullContext))],
    [activePlatform |-> "quantcdn", order |-> <<"quantcdn", "quantgov">>,
     platforms |-> ("quantcdn" :> StoredEntry("quantcdn", [activeOrganization |-> "s-org",
                                                          expiresAt |-> toISOString(0)])) @@
                   ("quantgov" :> StoredEntry("quantgov", [activeApplication |-> "s-app"]))],
    [activePlatform |-> "quantgov", order |-> <<"quantcdn", "quantgov">>,
     platforms |-> ("quantcdn" :> StoredEntry("quantcdn", [activeOrganization |-> "s-org"])) @@
                   ("quantgov" :> StoredEntry("quantgov", [activeApplication |-> "s-app"]))],
    [activePlatform |-> "ghost", order |-> <<"quantcdn">>,
     platforms |-> ("quantcdn" :> StoredEntry("quantcdn", <<>>))],
    [activePlatform |-> UNDEF, order |-> <<"quantcdn", "quantgov">>,
     platforms |-> ("quantcdn" :> StoredEntry("quantcdn", <<>>)) @@
                   ("quantgov" :> StoredEntry("quantgov", <<>>))],
    [activePlatform |-> "quantcdn", order |-> <<"quantcdn">>,
     platforms |-> ("quantcdn" :> MkEntry([host |-> HostOf["quantcdn"], activeOrganization |-> "s-org"],
                                          generatePlatformInfo(HostOf["quantcdn"])))],
    [activePlatform |-> "quantcdn", order |-> <<"quantcdn">>,
     platforms |-> ("quantcdn" :> StoredEntry("quantcdn", [token |-> ""]))],
    [activePlatform |-> "quantgov", order |-> <<"quantcdn", "quantgov">>,
     platforms |-> ("quantcdn" :> StoredEntry("quantcdn", FullContext)) @@
                   ("quantgov" :> StoredEntry("quantgov",
                                              [organizations |-> "[beta,acme]",
                                               activeOrganization |-> "beta",
                                               activeApplication |-> "s-app",
                                               activeEnvironment |-> "s-env"]))] }

LegacyConfigs ==
  { Spread([token |-> "tok-old", host |-> HostOf["quantcdn"]], FullContext),
    [token |-> "tok-old", host |-> HostOf["quantgov"]],
    [token |-> "tok-old", host |-> "https://a.io", activeOrganization |-> "s-org"],
    [token |-> "tok-old", host |-> "http://c:8"],
    [token |-> "tok-old", host |-> "a.io"],
    [token |-> "tok-old", host |-> "ftp://b"],
    [token |-> "tok-old", host |-> ""],
    [token |-> "tok-old", activeOrganization |-> "s-org"],
    [host |-> HostOf["quantcdn"]],
    [token |-> "", host |-> HostOf["quantcdn"]] }

Layouts == {"pretty", "compact"}

PersistedFiles ==
  {AbsentFile, GarbageFile, UnreadableFile, JsonFile("compact", "scalar", <<>>)}
  \cup {JsonFile(fmt, "multi", c) : fmt \in Layouts, c \in PersistedConfigs}
  \cup {JsonFile(fmt, "legacy", a) : fmt \in Layouts, a \in LegacyConfigs}

(***************************************************************************)
(* Inputs of the context resolver.                                         *)
(***************************************************************************)
OverrideSets ==
  [platform : {UNDEF, "quantgov"}, org : {UNDEF, "", "c-org"},
   app : {UNDEF, "", "c-app"}, env : {UNDEF, "", "c-env"}]

YamlString(v) == [t |-> "string", v |-> v]

ProjectValue == ("org" :> "p-org") @@ ("app" :> "p-app") @@ ("env" :> "p-env")

ProjectDocs ==
  {[kind |-> "none"], [kind |-> "invalid"], [kind |-> "scalar"]}
  \cup {[kind |-> "object", body |-> [k \in K |-> YamlString(ProjectValue[k])]] :
          K \in SUBSET {"org", "app", "env"}}
  \cup {[kind |-> "object", body |-> b] :
          b \in { ("platform" :> YamlString("quantgov")),
                  ("platform" :> YamlString("quantgov")) @@ ("org" :> YamlString("p-org")),
                  ("org" :> YamlString("")) @@ ("app" :> [t |-> "number", v |-> "5"]) @@
                  ("env" :> YamlString("p-env")) @@ ("extra" :> YamlString("x")) }}

ResolveEffectiveContext ==
  \E overrides \in OverrideSets, doc \in ProjectDocs :
    Call("resolveEffectiveContext", [overrides |-> overrides, doc |-> doc],
         resolveEffectiveContext(file, overrides, doc))

\* the fields a command requires of its context
RequiredSets == [org : BOOLEAN, app : BOOLEAN, env : BOOLEAN]

\* a command validates the context it has just resolved
ValidateContext ==
  /\ last.op = "resolveEffectiveContext"
  /\ ~last.threw
  /\ \E required \in RequiredSets :
       Call("validateContext", [context |-> last.result, required |-> required],
            validateContext(file, last.result, required))

\* the updates the commands make to the active platform's context
ContextUpdates ==
  { <<>>,
    [activeApplication |-> "app-2"],
    [activeEnvironment |-> UNDEF],
    [activeOrganization |-> "beta", activeApplication |-> UNDEF, activeEnvironment |-> UNDEF],
    [organizations |-> "[beta,acme]", activeOrganization |-> "beta"],
    [activeApplication |-> "app-2", activeEnvironment |-> "env-2"] }

SaveActiveContext ==
  \E updates \in ContextUpdates :
    Call("saveActivePlatformConfig", [updates |-> updates], saveActivePlatformConfig(file, updates))

\* the orgId argument: none, a machine name, a numeric id, or neither
OrgIdArguments == {UNDEF, "acme", "beta", "1", "2", "zeta", "7"}

\* what the prompt of org select can answer: a machine name of the cached list
PromptChoices(f) ==
  LET choices(g) ==
        LET organizations == IF g.result.isNull THEN <<>> ELSE CachedOrganizations(g.result.auth)
        IN  IF Len(organizations) = 0 THEN {UNDEF}
            ELSE {organizations[i].machine_name : i \in 1..Len(organizations)}
  IN  CHOOSE r \in {choices(g) : g \in {getActivePlatformConfig(f)}} : TRUE

OrgSelect ==
  \E orgId \in OrgIdArguments, selectedOrgId \in PromptChoices(file) :
    Call("orgSelect", [orgId |-> orgId, selectedOrgId |-> selectedOrgId],
         handleOrgSelect(file, orgId, selectedOrgId))

InitPersisted ==
  /\ file \in PersistedFiles
  /\ now = 0
  /\ last = NoCall(file)
  /\ lg = NoLogin
  /\ procs = NoProcesses

\* one command is run on the file found (a context that was resolved is then
\* validated), and the process exits
NextPersisted ==
  \/ last.op = "none" /\ Load
  \/ last.op = "none" /\ GetActivePlatformConfig
  \/ last.op = "none" /\ SwitchPlatform
  \/ last.op = "none" /\ RemovePlatform
  \/ last.op = "none" /\ ResolveEffectiveContext
  \/ last.op = "none" /\ SaveActiveContext
  \/ last.op = "none" /\ OrgSelect
  \/ ValidateContext

SpecPersisted == InitPersisted /\ [][NextPersisted]_vars

(***************************************************************************)
(* One login attempt, step by step, on a credential file found on disk.    *)
(* The listener, the timer, the browser and the platform's answers are the *)
(* environment: they act in any order the code allows.                     *)
(***************************************************************************)
LoginFiles ==
  { AbsentFile,
    JsonFile("pretty", "legacy",
             [token |-> "tok-old", host |-> HostOf["quantcdn"], expiresAt |-> toISOString(1)]),
    JsonFile("pretty", "multi",
             [activePlatform |-> "quantcdn", order |-> <<"quantcdn", "quantgov">>,
              platforms |-> ("quantcdn" :> StoredEntry("quantcdn", [activeOrganization |-> "s-org"])) @@
                            ("quantgov" :> StoredEntry("quantgov", <<>>))]) }

\* the values randomBytes(32).toString('base64url') may take
CodeVerifiers == {"v-1", "v-2"}

\* the requests that can reach the listener: query parameters absent or given
CallbackRequests ==
  [path : {"/callback", "/favicon.ico"}, code : {UNDEF, "c1"},
   state : {UNDEF, GeneratedState, "st-0"}, error : {UNDEF, "access_denied"}]

TokenResponses ==
  {[ok |-> FALSE, tokenData |-> NoTokenData]}
  \cup {[ok |-> TRUE, tokenData |-> d] : d \in TokenReplies}

UserInfoResponses ==
  {[ok |-> FALSE, userInfo |-> [email |-> UNDEF, organizations |-> "[]"]]}
  \cup {[ok |-> TRUE, userInfo |-> u] : u \in UserInfoReplies}

\* the process has not exited
Alive == lg.pc \in {"waiting", "exchange", "userinfo"}

BeginLogin ==
  /\ lg.pc = "idle"
  /\ \E id \in PlatformIds, codeVerifier \in CodeVerifiers :
       lg' = beginLogin(file, lg, now, HostOf[id], codeVerifier)
  /\ UNCHANGED <<file, now, last, procs>>

Listening ==
  /\ Alive
  /\ lg.server = "binding"
  /\ \E opened \in BOOLEAN : lg' = onListening(lg, opened)
  /\ UNCHANGED <<file, now, last, procs>>

ListenError ==
  /\ Alive
  /\ lg.server = "binding"
  /\ lg' = onServerError(lg)
  /\ UNCHANGED <<file, now, last, procs>>

Request ==
  /\ Alive
  /\ lg.server = "listening"
  /\ \E req \in CallbackRequests : lg' = onRequest(lg, req)
  /\ UNCHANGED <<file, now, last, procs>>

\* a request on a connection accepted before server.close(): the handler
\* runs again, after the wait has been settled
LateRequest ==
  /\ Alive
  /\ lg.server = "closed"
  /\ lg.req.path = "/callback"
  /\ \E req \in CallbackRequests :
       lg' = [onRequest(lg, req) EXCEPT !.req = lg.req, !.response = lg.response,
                                        !.trace = lg.trace, !.late = req]
  /\ UNCHANGED <<file, now, last, procs>>

Timeout ==
  /\ Alive
  /\ lg.timer = "armed"
  /\ lg' = onTimeout(lg)
  /\ UNCHANGED <<file, now, last, procs>>

AwaitCallback ==
  /\ lg.pc = "waiting"
  /\ lg.promise \in {"resolved", "rejected"}
  /\ lg' = awaitCallback(lg)
  /\ UNCHANGED <<file, now, last, procs>>

ExchangeCodeForToken ==
  /\ lg.pc = "exchange"
  /\ \E reply \in TokenResponses :
       LET r == exchangeCodeForToken(file, lg, reply)
       IN  file' = r.file /\ lg' = r.lg
  /\ UNCHANGED <<now, last, procs>>

GetUserInfo ==
  /\ lg.pc = "userinfo"
  /\ \E reply \in UserInfoResponses :
       LET r == getUserInfo(file, lg, now, reply)
       IN  file' = r.file /\ lg' = r.lg
  /\ UNCHANGED <<now, last, procs>>

InitLogin ==
  /\ file \in LoginFiles
  /\ now = 0
  /\ last = NoCall(file)
  /\ lg = NoLogin
  /\ procs = NoProcesses

NextLogin ==
  \/ BeginLogin
  \/ Listening
  \/ ListenError
  \/ Request
  \/ LateRequest
  \/ Timeout
  \/ AwaitCallback
  \/ ExchangeCodeForToken
  \/ GetUserInfo
  \/ Tick

SpecLogin == InitLogin /\ [][NextLogin]_vars

\* the event loop runs the timer callback when the timer is due
FairSpecLogin == SpecLogin /\ WF_vars(Timeout)

(***************************************************************************)
(* The project-config search on every directory chain.                     *)
(***************************************************************************)
Dirs == 0..MaxDepth

FileSystems == [Dirs -> [config : BOOLEAN, git : BOOLEAN]]

FindProjectConfigFile ==
  \E fs \in FileSystems, startDir \in Dirs :
    Call("findProjectConfigFile", [fs |-> fs, startDir |-> startDir],
         Returned(file, findProjectConfigFile(fs, startDir)))

\* the values a key of the parsed document may have: a string, the empty
\* string, a number, a boolean
YamlValues ==
  {YamlString("v1"), YamlString(""), [t |-> "number", v |-> "5"], [t |-> "boolean", v |-> "true"]}

\* what is at the path: nothing, a file yaml.load rejects, an empty file or a
\* root that is no object, or a mapping of some of the recognized keys and an
\* unrecognized one
YamlDocuments ==
  {[kind |-> "none"], [kind |-> "invalid"], [kind |-> "scalar"]}
  \cup {[kind |-> "object", body |-> b] :
          b \in UNION {[K -> YamlValues] : K \in SUBSET (RecognizedKeys \cup {"extra"})}}

LoadProjectConfig ==
  \E doc \in YamlDocuments :
    Call("loadProjectConfig", [doc |-> doc], Returned(file, loadProjectConfig(doc)))

InitProject ==
  /\ file = AbsentFile
  /\ now = 0
  /\ last = NoCall(file)
  /\ lg = NoLogin
  /\ procs = NoProcesses

NextProject ==
  \/ last.op = "none" /\ FindProjectConfigFile
  \/ last.op = "none" /\ LoadProjectConfig

SpecProject == InitProject /\ [][NextProject]_vars

(***************************************************************************)
(* Two commands at once: each process takes its two steps, in any order    *)
(* the event loops allow.                                                  *)
(***************************************************************************)
RaceFiles ==
  { JsonFile("pretty", "multi",
             [activePlatform |-> "quantcdn", order |-> <<"quantcdn">>,
              platforms |-> ("quantcdn" :> StoredEntry("quantcdn", [activeOrganization |-> "s-org"]))]),
    JsonFile("pretty", "multi",
             [activePlatform |-> "quantcdn", order |-> <<"quantcdn", "quantgov">>,
              platforms |-> ("quantcdn" :> StoredEntry("quantcdn", <<>>)) @@
                            ("quantgov" :> StoredEntry("quantgov", <<>>))]),
    JsonFile("pretty", "legacy", [token |-> "tok-old", host |-> HostOf["quantcdn"]]),
    AbsentFile }

RaceCommands ==
  {[op |-> "saveActivePlatformConfig", updates |-> u] :
     u \in {[activeOrganization |-> "acme"], [activeApplication |-> "app-1"],
            [activeOrganization |-> "beta", activeApplication |-> UNDEF]}}
  \cup {[op |-> "savePlatformConfig", platformId |-> "quantgov",
          authConfig |-> [token |-> TokenOf["quantgov"], host |-> HostOf["quantgov"]]]}
  \cup {[op |-> "switchPlatform", platformId |-> id] : id \in {"quantcdn", "quantgov"}}

\* const multiConfig = await loadMultiPlatformConfig()
LoadStep(p) ==
  /\ procs.pc[p] = "idle"
  /\ \E cmd \in RaceCommands :
       LET l == loadMultiPlatformConfig(file)
       IN  /\ file' = l.file
           /\ procs' = [procs EXCEPT !.pc[p] = "loaded", !.cmd[p] = cmd,
                                      !.multiConfig[p] = l.cfg,
                                      !.trace = Append(@, <<p, "load">>)]
  /\ UNCHANGED <<now, last, lg>>

\* the change in memory and await saveMultiPlatformConfig(multiConfig)
SaveStep(p) ==
  /\ procs.pc[p] = "loaded"
  /\ file' = commit(file, procs.cmd[p], procs.multiConfig[p])
  /\ procs' = [procs EXCEPT !.pc[p] = "done", !.trace = Append(@, <<p, "save">>)]
  /\ UNCHANGED <<now, last, lg>>

InitRace ==
  /\ file \in RaceFiles
  /\ now = 0
  /\ last = NoCall(file)
  /\ lg = NoLogin
  /\ procs = [NoProcesses EXCEPT !.start = file]

NextRace ==
  \/ \E p \in Processes : LoadStep(p)
  \/ \E p \in Processes : SaveStep(p)

SpecRace == InitRace /\ [][NextRace]_vars

(***************************************************************************)
(* A logger constructed under some LOG_LEVEL and given messages.  last     *)
(* holds the logger: args the LOG_LEVEL, result its level, and calls the   *)
(* messages given with the console method each one reached.                *)
(***************************************************************************)
LogLevelValues ==
  {UNDEF, "", "debug", "DEBUG", "Info", "INFO", "warn", "WARN", "error", "ERROR",
   "verbose", "0", "1", "2", "3"}

Severities == {"DEBUG", "INFO", "WARN", "ERROR"}

NewLogger ==
  /\ last.op = "none"
  /\ \E env \in LogLevelValues :
       last' = [op |-> "Logger", args |-> [LOG_LEVEL |-> env], threw |-> FALSE,
                result |-> newLogger(env), before |-> file, calls |-> <<>>]
  /\ UNCHANGED <<file, now, lg, procs>>

LogMessage ==
  /\ last.op = "Logger"
  /\ Len(last.calls) < MaxMessages
  /\ \E severity \in Severities :
       last' = [last EXCEPT !.calls =
                  Append(@, [severity |-> severity,
                             console |-> logMessage(last.result, severity)])]
  /\ UNCHANGED <<file, now, lg, procs>>

InitLogger ==
  /\ file = AbsentFile
  /\ now = 0
  /\ last = NoCall(file)
  /\ lg = NoLogin
  /\ procs = NoProcesses

NextLogger ==
  \/ NewLogger
  \/ LogMessage

SpecLogger == InitLogger /\ [][NextLogger]_vars

(***************************************************************************)
(* Navigation: org select, app select and env select, one after another,   *)
(* on a store whose active platform is logged in.                          *)
(***************************************************************************)
NavigateFiles ==
  {JsonFile("pretty", "multi",
            [activePlatform |-> "quantcdn", order |-> <<"quantcdn">>,
             platforms |-> ("quantcdn" :> StoredEntry("quantcdn", context))]) :
     context \in {[organizations |-> "[beta,acme]", activeOrganization |-> "acme"],
                  [organizations |-> "[beta,acme]", activeOrganization |-> "beta",
                   activeApplication |-> "shop", activeEnvironment |-> "live"]}}

\* the nearest .quant.yml: none, or one naming an application
NavigateDocs ==
  {[kind |-> "none"], [kind |-> "object", body |-> ("app" :> YamlString("shop"))]}

AppSelectInputs ==
  [doc : NavigateDocs, appId : {UNDEF}, options : [org : {UNDEF, "beta"}],
   answers : {[app |-> a, env |-> e, envsUp |-> TRUE] : a \in 0..2, e \in 1..2}
             \cup {[app |-> a, env |-> 1, envsUp |-> FALSE] : a \in 1..2}]
  \cup [doc : NavigateDocs, appId : {"web", "api", "shop", "blog", "zeta"},
        options : [org : {UNDEF, "beta"}],
        answers : {[app |-> 0, env |-> e, envsUp |-> TRUE] : e \in 1..2}
                  \cup {[app |-> 0, env |-> 1, envsUp |-> FALSE]}]

EnvSelectInputs ==
  [doc : NavigateDocs, envId : {UNDEF}, options : [org : {UNDEF, "beta"}, app : {UNDEF, "shop"}],
   answers : {[env |-> e] : e \in 0..2}]
  \cup [doc : NavigateDocs, envId : {"prod", "dev", "live", "nope"},
        options : [org : {UNDEF, "beta"}, app : {UNDEF, "shop"}],
        answers : {[env |-> 0]}]

AppSelect ==
  \E in \in AppSelectInputs :
    \E client \in {resolveEffectiveContext(file, <<>>, in.doc)} :
      \E r \in {handleAppSelect(file, client, in.appId, in.options, in.answers)} :
        Call("appSelect", in, r)

EnvSelect ==
  \E in \in EnvSelectInputs :
    \E client \in {resolveEffectiveContext(file, <<>>, in.doc)} :
      \E r \in {handleEnvSelect(file, client, in.envId, in.options, in.answers)} :
        Call("envSelect", in, r)

InitNavigate ==
  /\ file \in NavigateFiles
  /\ now = 0
  /\ last = NoCall(file)
  /\ lg = NoLogin
  /\ procs = NoProcesses

NextNavigate ==
  \/ OrgSelect
  \/ AppSelect
  \/ EnvSelect

SpecNavigate == InitNavigate /\ [][NextNavigate]_vars

(***************************************************************************)
(* Properties.                                                             *)
(***************************************************************************)
\* the MultiPlatformConfig load() returns for a file
Store(f) == loadMultiPlatformConfig(f).cfg

\* the call just made, on a file whose store is b, leaving a store a
Before == Store(last.before)

After == Store(file)

\* every entry of b other than id is an entry of a, unchanged
OthersUnchanged(b, a, id) ==
  \A k \in Keys(b) \ {id} : k \in Keys(a) /\ a.platforms[k] = b.platforms[k]

\* C1: whenever activePlatform is set, it is the key of an entry of platforms
\* (after any sequence of store operations from the empty store).
C1_ActivePointerValid ==
  After.activePlatform # UNDEF => After.activePlatform \in Keys(After)

\* C1 witness: the active platform was removed while another entry remained,
\* and activePlatform now names a remaining entry
C1_Witness ==
  /\ last.op = "removePlatform"
  /\ last.result = TRUE
  /\ Before.activePlatform = last.args.platformId
  /\ Keys(After) # {}
  /\ After.activePlatform \in Keys(After)

C3_SavePlatformConfig ==
  last.op = "savePlatformConfig" =>
    /\ Keys(Before) = {} => After.activePlatform = last.args.platformId
    /\ (Keys(Before) # {} /\ Before.activePlatform # UNDEF)
         => After.activePlatform = Before.activePlatform
    /\ OthersUnchanged(Before, After, last.args.platformId)
    /\ Keys(After) = Keys(Before) \cup {last.args.platformId}
    /\ After.platforms[last.args.platformId].auth = last.args.authConfig

\* C3 witness: a new platform was saved into a store whose active platform is
\* another one, and that one is still active
C3_Witness ==
  /\ last.op = "savePlatformConfig"
  /\ Keys(Before) # {}
  /\ last.args.platformId \notin Keys(Before)
  /\ Before.activePlatform \in Keys(Before)
  /\ After.activePlatform = Before.activePlatform

RawKeys(f) == IF f.kind = "json" /\ f.shape = "multi" THEN Keys(f.body) ELSE {}

\* a legacy document that load() migrates
Migrates(f) == f.kind = "json" /\ f.shape = "legacy" /\ "host" \in DOMAIN f.body

\* file holds, as JSON.stringify lays it out, the one-entry config made of the
\* legacy document old
IsMigrationOf(f, old) ==
  /\ f.kind = "json" /\ f.fmt = "pretty" /\ f.shape = "multi"
  /\ Len(f.body.order) = 1
  /\ Keys(f.body) = {f.body.order[1]}
  /\ f.body.activePlatform = f.body.order[1]
  /\ f.body.platforms[f.body.order[1]].auth = old.body

\* C5 as claimed: for a file in multi-platform or legacy shape and an id that
\* is not a key of its platforms, switchPlatform and removePlatform return
\* false, throw nothing and leave the file unchanged byte for byte.
C5_UnknownIdLeavesFile ==
  (/\ last.op \in {"switchPlatform", "removePlatform"}
   /\ last.before.kind = "json"
   /\ last.before.shape \in {"multi", "legacy"}
   /\ last.args.platformId \notin RawKeys(last.before))
  => (~last.threw /\ last.result = FALSE /\ file = last.before)

\* C5 amended: for every file and every id that is not a key of the platforms
\* load() returns for it, switchPlatform and removePlatform return false and
\* throw nothing; the file is unchanged byte for byte, except that a legacy
\* document with a host is rewritten by load() as its one-entry migration.
C5_UnknownIdOnlyMigrates ==
  (/\ last.op \in {"switchPlatform", "removePlatform"}
   /\ last.args.platformId \notin Keys(Before))
  => /\ ~last.threw
     /\ last.result = FALSE
     /\ IF Migrates(last.before) THEN IsMigrationOf(file, last.before)
                                 ELSE file = last.before

\* C5 witness: an unknown id was refused on a multi-platform file that is not
\* laid out as the CLI writes it, and the file is as it was
C5_Witness ==
  /\ last.op = "removePlatform"
  /\ last.before.kind = "json" /\ last.before.shape = "multi" /\ last.before.fmt = "compact"
  /\ Keys(Before) # {}
  /\ last.args.platformId \notin Keys(Before)
  /\ last.result = FALSE
  /\ file = last.before

\* C6: load() of any legacy document (one without a platforms key) returns a
\* config with exactly one entry, active, holding the document's fields
\* verbatim, and has written that config back.
C6_LegacyMigration ==
  (last.op = "load" /\ last.before.kind = "json" /\ last.before.shape = "legacy")
  => /\ Len(last.result.order) = 1
     /\ Keys(last.result) = {last.result.order[1]}
     /\ last.result.activePlatform = last.result.order[1]
     /\ last.result.platforms[last.result.order[1]].auth = last.before.body
     /\ IsMigrationOf(file, last.before)

\* the stored AuthConfig of the active platform (no field when there is none)
ActiveAuth(c) ==
  IF c.activePlatform \in Keys(c) THEN c.platforms[c.activePlatform].auth ELSE <<>>

\* the value of a field by the layering rule: the override if provided, else
\* the project value if present, else the stored value
Layered(override, project, stored) ==
  IF override # UNDEF THEN override ELSE IF project # UNDEF THEN project ELSE stored

\* C7: each of organization, application and environment of the effective
\* context is the CLI override if one was provided (the empty string
\* included), else the project-config value if present, else the stored value.
C7_LayeringPrecedence ==
  (last.op = "resolveEffectiveContext" /\ ~last.threw)
  => LET overrides == last.args.overrides
         projectConfig == getProjectConfig(last.args.doc)
         stored == ActiveAuth(Before)
     IN  /\ last.result.activeOrganization =
              Layered(overrides.org, Get(projectConfig, "org"), Get(stored, "activeOrganization"))
         /\ last.result.activeApplication =
              Layered(overrides.app, Get(projectConfig, "app"), Get(stored, "activeApplication"))
         /\ last.result.activeEnvironment =
              Layered(overrides.env, Get(projectConfig, "env"), Get(stored, "activeEnvironment"))

\* the platform a command names: --platform, else the project config's platform
NamedPlatform(overrides, doc) ==
  Layered(overrides.platform, Get(getProjectConfig(doc), "platform"), UNDEF)

\* C8: when --platform or the project config names a stored platform other
\* than the active one, host and token of the effective context are those of
\* the named platform.
C8_PlatformOverride ==
  LET named == NamedPlatform(last.args.overrides, last.args.doc)
  IN  (/\ last.op = "resolveEffectiveContext"
       /\ ~last.threw
       /\ named \in Keys(Before)
       /\ named # Before.activePlatform)
      => /\ last.result.host = Get(Before.platforms[named].auth, "host")
         /\ last.result.token = Get(Before.platforms[named].auth, "token")

Unauthenticated(f) ==
  \/ f.kind # "json"
  \/ ~Truthy(Store(f).activePlatform)
  \/ Store(f).activePlatform \notin Keys(Store(f))
  \/ ~Truthy(Get(ActiveAuth(Store(f)), "token"))

\* C10: resolveEffectiveContext fails, with the Not authenticated error, if
\* and only if there is no usable token; otherwise it returns a context.
C10_UnauthenticatedOnlyStop ==
  last.op = "resolveEffectiveContext"
  => /\ last.threw <=> Unauthenticated(last.before)
     /\ last.threw => last.result = NotAuthenticated

\* C10 witness: a context was returned for an entry whose expiresAt has
\* elapsed, with no environment from any layer
C10_Witness ==
  /\ last.op = "resolveEffectiveContext"
  /\ ~last.threw
  /\ last.result.expiresAt # UNDEF
  /\ now >= DateOf(last.result.expiresAt)
  /\ last.result.activeEnvironment = UNDEF
  /\ last.result.activeOrganization # UNDEF

\* the field a failure of validateContext names
FieldNamed(msg) ==
  CASE msg = NoOrganization -> "org"
    [] msg = NoApplication -> "app"
    [] msg = NoEnvironment -> "env"
    [] OTHER -> "none"

\* the field of the context that org, app or env stands for
ContextField(context, k) ==
  CASE k = "org" -> context.activeOrganization
    [] k = "app" -> context.activeApplication
    [] k = "env" -> context.activeEnvironment

\* the required fields the context lacks (undefined or empty)
MissingRequired(context, required) ==
  {k \in {"org", "app", "env"} : required[k] /\ ~Truthy(ContextField(context, k))}

\* C11: validateContext fails exactly when some required field is absent from
\* the context; the failure names a field that is required and absent, with a
\* message of its own per field; a context that lacks only fields that are not
\* required passes.
C11_ValidateContext ==
  last.op = "validateContext" =>
    LET missing == MissingRequired(last.args.context, last.args.required)
    IN  /\ last.threw <=> missing # {}
        /\ last.threw => FieldNamed(last.result) \in missing
        /\ Cardinality({NoOrganization, NoApplication, NoEnvironment}) = 3
        /\ file = last.before

\* C11 witness: a context without organization and application, of which only
\* the application was required, failed naming the application
C11_Witness ==
  /\ last.op = "validateContext"
  /\ last.threw
  /\ last.args.context.activeOrganization = UNDEF
  /\ last.args.context.activeApplication = UNDEF
  /\ last.args.required = [org |-> FALSE, app |-> TRUE, env |-> FALSE]
  /\ last.result = NoApplication

\* the listener has handled a callback whose state is not the one generated
\* for this attempt (a missing state included)
MismatchedCallback == lg.req.path = "/callback" /\ lg.req.state # lg.expectedState

\* C12 as claimed: a callback whose state differs from the generated one
\* rejects the attempt with the state-mismatch error, and the attempt writes
\* no credential, whatever code the callback carries.
C12_StateMismatchError ==
  MismatchedCallback
  => /\ lg.promise = "rejected"
     /\ lg.value = "Invalid state parameter"
     /\ file = lg.start

\* C12 amended: a callback whose state differs from the generated one rejects
\* the attempt and the attempt writes no credential, whatever code it carries;
\* the rejection is the state-mismatch error unless the callback carries an
\* error parameter, which is reported instead.
C12_StateMismatchRejects ==
  MismatchedCallback
  => /\ lg.promise = "rejected"
     /\ lg.value = IF Truthy(lg.req.error) THEN "OAuth error: " \o lg.req.error
                   ELSE "Invalid state parameter"
     /\ lg.pc \in {"waiting", "failed"}
     /\ lg.pc = "failed" => lg.result = lg.value
     /\ lg.trace = <<>>
     /\ file = lg.start

\* C12 witness: an attempt has failed with the state-mismatch error on a
\* callback that carried a code and another state, and the file is as it was
C12_Witness ==
  /\ lg.pc = "failed"
  /\ lg.req = [path |-> "/callback", code |-> "c1", state |-> "st-0", error |-> UNDEF]
  /\ lg.result = "Invalid state parameter"
  /\ lg.server = "closed"
  /\ file = lg.start

\* the milestones of a successful login, in order
LoginMilestones == <<"code", "token", "userinfo", "write">>

\* C13: the credential file is written only after the callback delivered a
\* code with the matching state, the token exchange succeeded and the user-info
\* fetch succeeded, in that order; an attempt that fails (authorization error,
\* state mismatch, timeout, token-exchange failure, user-info failure) leaves
\* the file as it was when the attempt began.
C13_AllOrNothing ==
  lg.pc # "idle" =>
    /\ \E n \in 0..Len(LoginMilestones) : lg.trace = [i \in 1..n |-> LoginMilestones[i]]
    /\ lg.trace # <<>> => (/\ lg.promise = "resolved"
                           /\ lg.req.path = "/callback"
                           /\ lg.req.state = lg.expectedState
                           /\ lg.value = lg.req.code)
    /\ file # lg.start => (lg.pc = "done" /\ lg.trace = LoginMilestones)
    /\ lg.trace = LoginMilestones => file # lg.start
    /\ lg.promise = "rejected" => file = lg.start
    /\ lg.pc = "failed" => file = lg.start

\* C13 witness: an attempt failed at the user-info fetch, after the code and
\* the token were obtained, and the file is as it was
C13_Witness ==
  /\ lg.pc = "failed"
  /\ lg.trace = <<"code", "token">>
  /\ lg.result = "Failed to get user info"
  /\ lg.start.kind = "json"
  /\ file = lg.start

\* the platform id of the service a login was run for
LoginPlatform == generatePlatformInfo(last.args.service).id

\* C14: a successful login upserts only the entry of the chosen platform: the
\* entry is in the store, every other entry is still there unchanged, and
\* activePlatform changes only if the store was empty or had none set.
C14_LoginUpsertsOneEntry ==
  (last.op = "login" /\ ~last.threw /\ last.result = "Authentication successful")
  => /\ LoginPlatform \in Keys(After)
     /\ OthersUnchanged(Before, After, LoginPlatform)
     /\ (Keys(Before) # {} /\ Before.activePlatform # UNDEF)
          => After.activePlatform = Before.activePlatform

\* the store c holds for platform id a token whose expiresAt is absent or
\* later than t
ValidTokenFor(c, id, t) ==
  /\ id \in Keys(c)
  /\ Truthy(Get(c.platforms[id].auth, "token"))
  /\ ~isTokenExpired(c.platforms[id].auth, t)

\* C15: login reports already-authenticated, leaving the file as it is, if and
\* only if the store (in legacy or in multi-platform shape) holds a valid token
\* for the chosen platform.
C15_LoginShortCircuit ==
  last.op = "login"
  => /\ last.result = "Already authenticated"
          <=> ValidTokenFor(Before, LoginPlatform, last.args.at)
     /\ last.result = "Already authenticated" => (~last.threw /\ file = last.before)

\* C16: the authorization URL is printed and the browser opened only once the
\* listener is listening, so that a redirect cannot reach a port that is not
\* yet bound; and a browser that could not be launched does not reject the
\* attempt, which goes on waiting for the callback.
C16_ListenerBeforeBrowser ==
  /\ (lg.printed \/ lg.browser # "none") => lg.server \in {"listening", "closed"}
  /\ lg.server \in {"none", "binding", "failed"} => lg.req = NoRequest
  /\ (lg.browser = "failed" /\ lg.req = NoRequest /\ lg.timer = "armed")
       => (lg.promise = "pending" /\ lg.pc = "waiting" /\ lg.server = "listening")

\* C16 witness: the browser could not be launched, the URL was printed, and
\* the attempt ended with the credential saved
C16_Witness ==
  /\ lg.browser = "failed"
  /\ lg.printed
  /\ lg.pc = "done"
  /\ lg.result = "Authentication successful"
  /\ file # lg.start

\* the wait for the callback is going on / has ended
CallbackWaitPending == lg.pc = "waiting" /\ lg.promise = "pending"

CallbackWaitEnded == lg.promise \in {"resolved", "rejected"}

\* the listener accepts no connection: it was closed, or it never listened
ListenerDown == lg.server \in {"closed", "failed"}

\* C17: once the wait for the callback has ended (by an error parameter, a
\* state mismatch, a valid code, or the timer) the listener is closed; the
\* timer closes it in any case; and, the timer being run when due, every wait
\* for the callback eventually ends.
C17_ListenerTornDown ==
  /\ [](CallbackWaitEnded => ListenerDown)
  /\ [](lg.timer = "fired" => ListenerDown)
  /\ (CallbackWaitPending ~> CallbackWaitEnded)

\* C17 witness: a callback with the right state but no code was left
\* unanswered, and the wait was ended by the timer, with the listener closed
C17_Witness ==
  /\ lg.req = [path |-> "/callback", code |-> UNDEF, state |-> GeneratedState, error |-> UNDEF]
  /\ lg.promise = "rejected"
  /\ lg.value = "Authentication timeout"
  /\ lg.timer = "fired"
  /\ lg.server = "closed"

\* the active platform of store c resolves to an entry
ActiveResolves(c) == Truthy(c.activePlatform) /\ c.activePlatform \in Keys(c)

\* C18: saveActivePlatformConfig(updates) fails, leaving the store as it is
\* (the file as load() leaves it), when no activePlatform is set (undefined or
\* empty) or it names no entry; otherwise every field
\* named in updates has the given value in the active entry (a field given as
\* undefined is unset), every other field of the entry is unchanged,
\* platformInfo is preserved, activePlatform is unchanged and so is every
\* other entry.
C18_SaveActivePlatformConfig ==
  last.op = "saveActivePlatformConfig" =>
    LET updates == last.args.updates
        old == ActiveAuth(Before)
        new == ActiveAuth(After)
    IN  IF ~ActiveResolves(Before)
        THEN /\ last.threw
             /\ After = Before
             /\ file = loadMultiPlatformConfig(last.before).file
        ELSE /\ ~last.threw
             /\ After.activePlatform = Before.activePlatform
             /\ After.order = Before.order
             /\ Keys(After) = Keys(Before)
             /\ OthersUnchanged(Before, After, Before.activePlatform)
             /\ After.platforms[After.activePlatform].platformInfo
                  = Before.platforms[Before.activePlatform].platformInfo
             /\ \A k \in DOMAIN updates :
                  IF updates[k] = UNDEF THEN k \notin DOMAIN new
                  ELSE k \in DOMAIN new /\ new[k] = updates[k]
             /\ \A k \in (DOMAIN old) \ (DOMAIN updates) : k \in DOMAIN new /\ new[k] = old[k]
             /\ DOMAIN new \subseteq (DOMAIN old) \cup (DOMAIN updates)

\* C18 witness: in a store of two platforms, an update that gave the
\* application as undefined has unset it in the active entry, whose token is
\* as it was
C18_Witness ==
  /\ last.op = "saveActivePlatformConfig"
  /\ ~last.threw
  /\ Cardinality(Keys(Before)) = 2
  /\ Get(last.args.updates, "activeOrganization") = "beta"
  /\ "activeApplication" \in DOMAIN last.args.updates
  /\ "activeApplication" \in DOMAIN ActiveAuth(Before)
  /\ "activeApplication" \notin DOMAIN ActiveAuth(After)
  /\ Get(ActiveAuth(After), "token") = Get(ActiveAuth(Before), "token")

\* the organization id an org select was run for
TargetOrgId == IF Truthy(last.args.orgId) THEN last.args.orgId ELSE last.args.selectedOrgId

\* the cached organizations the target of an org select matches
TargetOrganizations ==
  LET organizations == CachedOrganizations(ActiveAuth(Before))
  IN  {organizations[i] : i \in MatchingOrganizations(organizations, TargetOrgId)}

\* C19: after org select has switched to a target found in the cached
\* organization list, the active platform stores the target's machine_name as
\* activeOrganization and neither activeApplication nor activeEnvironment;
\* when the target matches no cached organization, by machine_name or by
\* numeric id, the store is unchanged.
C19_OrgSelect ==
  last.op = "orgSelect" =>
    /\ ~last.threw
    /\ last.result = "Switched to organization" =>
         /\ TargetOrganizations # {}
         /\ \E o \in TargetOrganizations :
              Get(ActiveAuth(After), "activeOrganization") = o.machine_name
         /\ "activeApplication" \notin DOMAIN ActiveAuth(After)
         /\ "activeEnvironment" \notin DOMAIN ActiveAuth(After)
         /\ After.activePlatform = Before.activePlatform
         /\ OthersUnchanged(Before, After, Before.activePlatform)
    /\ (/\ TargetOrganizations # {}
        /\ Len(CachedOrganizations(ActiveAuth(Before))) > 1
        /\ Truthy(Get(ActiveAuth(Before), "token")))
         => last.result = "Switched to organization"
    /\ TargetOrganizations = {} => After = Before

\* C19 witness: org select 1 has switched from beta to acme, found by its
\* numeric id, and the application and environment stored before are unset
C19_Witness ==
  /\ last.op = "orgSelect"
  /\ last.args.orgId = "1"
  /\ last.result = "Switched to organization"
  /\ Get(ActiveAuth(Before), "activeOrganization") = "beta"
  /\ Get(ActiveAuth(Before), "activeApplication") = "s-app"
  /\ Get(ActiveAuth(Before), "activeEnvironment") = "s-env"
  /\ Get(ActiveAuth(After), "activeOrganization") = "acme"
  /\ Get(ActiveAuth(After), "activeApplication") = UNDEF

\* the greatest member of a non-empty set of directories: the nearest one
Nearest(ds) == CHOOSE d \in ds : \A e \in ds : e <= d

\* the directory the search must not go above: the nearest ancestor-or-self
\* of startDir with a .git entry, or the root when there is none
SearchBound(fs, startDir) ==
  LET markers == {d \in 0..startDir : fs[d].git}
  IN  IF markers = {} THEN rootDir ELSE Nearest(markers)

\* C20: findProjectConfigFile(startDir) returns the .quant.yml of the nearest
\* ancestor-or-self directory that has one and is not above the nearest
\* directory with a .git entry (that directory included), and null when there
\* is no such directory; it terminates for every start directory.
C20_BoundedNearestConfig ==
  last.op = "findProjectConfigFile" =>
    LET fs == last.args.fs
        startDir == last.args.startDir
        candidates == {d \in SearchBound(fs, startDir)..startDir : fs[d].config}
    IN  last.result = IF candidates = {} THEN NoPath ELSE Nearest(candidates)

\* what the code does: the same with the filesystem root left out of the search
C20_ExceptRoot ==
  last.op = "findProjectConfigFile" =>
    LET fs == last.args.fs
        startDir == last.args.startDir
        candidates == {d \in SearchBound(fs, startDir)..startDir : fs[d].config /\ d # rootDir}
    IN  last.result = IF candidates = {} THEN NoPath ELSE Nearest(candidates)

\* the recognized keys of the document just loaded whose value is of type string
StringTyped(doc) ==
  IF doc.kind = "object"
  THEN {k \in RecognizedKeys \cap DOMAIN doc.body : doc.body[k].t = "string"}
  ELSE {}

\* C21 as claimed: loadProjectConfig never throws and returns key k with value
\* v exactly when k is a recognized key whose value in the document is of type
\* string, v being that value; anything that is no mapping yields {}.
C21_StringTypedSubset ==
  last.op = "loadProjectConfig"
  => /\ ~last.threw
     /\ DOMAIN last.result = StringTyped(last.args.doc)
     /\ \A k \in DOMAIN last.result : last.result[k] = last.args.doc.body[k].v

\* C21 amended: loadProjectConfig never throws and returns key k with value v
\* exactly when k is a recognized key whose value in the document is a
\* non-empty string, v being that value; unrecognized keys, other types and
\* the empty string are dropped, and anything that is no mapping yields {}.
C21_NonEmptyStringSubset ==
  last.op = "loadProjectConfig"
  => /\ ~last.threw
     /\ DOMAIN last.result
          = {k \in StringTyped(last.args.doc) : last.args.doc.body[k].v # ""}
     /\ \A k \in DOMAIN last.result : last.result[k] = last.args.doc.body[k].v

\* C21 witness: a document with a string, an empty string, a number and an
\* unrecognized key has been loaded, and only the string came back
C21_Witness ==
  /\ last.op = "loadProjectConfig"
  /\ last.args.doc.kind = "object"
  /\ last.args.doc.body = ("org" :> YamlString("v1")) @@ ("app" :> YamlString("")) @@
                           ("env" :> [t |-> "number", v |-> "5"]) @@
                           ("extra" :> YamlString("v1"))
  /\ last.result = ("org" :> "v1")

\* the credential file holds no JSON object: it is absent, unreadable, not
\* JSON, or JSON that is no object
NoJsonObject(f) == f.kind # "json" \/ f.shape = "scalar"

\* C22: load() and getActivePlatformConfig() return a value and never throw,
\* whatever the credential file holds; when the file holds no JSON object,
\* load() returns {platforms: {}}, getActivePlatformConfig() returns null, and
\* the file is left as it was.
C22_ReadsNeverCrash ==
  /\ last.op \in {"load", "getActivePlatformConfig"} => ~last.threw
  /\ last.op = "load" /\ NoJsonObject(last.before)
       => last.result = EmptyConfig /\ file = last.before
  /\ last.op = "getActivePlatformConfig" /\ NoJsonObject(last.before)
       => last.result.isNull /\ file = last.before

\* C22 witness: load() has run on a file that is not JSON, returned the empty
\* store and left the file alone
C22_Witness ==
  /\ last.op = "load"
  /\ last.before = GarbageFile
  /\ ~last.threw
  /\ last.result = EmptyConfig
  /\ file = GarbageFile

\* C23: a confirmed logout with a credential file present removes the file:
\* load() then returns {platforms: {}} and every context resolution fails as
\* unauthenticated; a declined confirmation or an absent file leaves the
\* store as it was.
C23_LogoutClears ==
  last.op = "logout"
  => IF last.args.confirmed /\ last.before.kind # "absent"
     THEN /\ file = AbsentFile
          /\ loadMultiPlatformConfig(file) = [cfg |-> EmptyConfig, file |-> AbsentFile]
          /\ \A overrides \in OverrideSets, doc \in ProjectDocs :
               resolveEffectiveContext(file, overrides, doc) = Threw(AbsentFile, NotAuthenticated)
     ELSE file = last.before

\* C23 witness: a store of two platforms has been logged out of, and no file
\* is left
C23_Witness ==
  /\ last.op = "logout"
  /\ last.args.confirmed
  /\ Cardinality(Keys(Before)) = 2
  /\ file = AbsentFile

\* both processes loaded before either saved
BothLoadedFirst ==
  /\ Len(procs.trace) = 4
  /\ procs.trace[1][2] = "load" /\ procs.trace[2][2] = "load"

\* one process ran from load to save before the other loaded
OneAfterTheOther ==
  /\ Len(procs.trace) = 4
  /\ procs.trace[2][2] = "save"

FirstSaver == procs.trace[3][1]

LastSaver == procs.trace[4][1]

\* the file after process p's command has run alone, in one piece, on the
\* file the two processes started with
Alone(p) == Mutation(procs.cmd[p], procs.start).file

\* the command of process p, run on the store the processes started with,
\* reaches saveMultiPlatformConfig
Saves(p) ==
  LET loaded == InMemory(Store(procs.start))
  IN  Mutation(procs.cmd[p], loaded).file # loaded

\* C24: when two processes both load the credential file before either
\* saves, and both save, the file at the end is what the last saver's
\* command alone would have left: the first saver's update is lost (two
\* saveActivePlatformConfig calls on different fields leave the first one's
\* fields as they were; a savePlatformConfig of a new platform followed by
\* the save of a switchPlatform leaves the new entry missing).  When one
\* process runs after the other, both updates are in the file.
C24_LostUpdate ==
  /\ BothLoadedFirst /\ Saves(LastSaver)
       => /\ file = Alone(LastSaver)
          /\ LET first == procs.cmd[FirstSaver]
                 lastc == procs.cmd[LastSaver]
             IN  /\ ( /\ first.op = "saveActivePlatformConfig"
                      /\ lastc.op = "saveActivePlatformConfig"
                      /\ DOMAIN first.updates \cap DOMAIN lastc.updates = {} )
                      => \A k \in DOMAIN first.updates :
                           Get(ActiveAuth(After), k) = Get(ActiveAuth(Store(procs.start)), k)
                 /\ ( /\ first.op = "savePlatformConfig"
                      /\ first.platformId \notin Keys(Store(procs.start))
                      /\ lastc.op = "switchPlatform" )
                      => first.platformId \notin Keys(After)
  /\ BothLoadedFirst /\ ~Saves(LastSaver)
       => file = Alone(FirstSaver)
  /\ OneAfterTheOther
       => file = Mutation(procs.cmd[procs.trace[3][1]],
                          Mutation(procs.cmd[procs.trace[1][1]], procs.start).file).file

\* C24 witness: two saveActivePlatformConfig calls on different fields, both
\* loaded before either saved; the organization the first one saved is not
\* in the file, the application the second one saved is
C24_Witness ==
  /\ procs.trace = <<<<1, "load">>, <<2, "load">>, <<1, "save">>, <<2, "save">>>>
  /\ procs.cmd[1] = [op |-> "saveActivePlatformConfig", updates |-> [activeOrganization |-> "acme"]]
  /\ procs.cmd[2] = [op |-> "saveActivePlatformConfig", updates |-> [activeApplication |-> "app-1"]]
  /\ Get(ActiveAuth(Store(procs.start)), "activeOrganization") = "s-org"
  /\ Get(ActiveAuth(After), "activeOrganization") = "s-org"
  /\ Get(ActiveAuth(After), "activeApplication") = "app-1"

\* C25: within one login attempt, the code_challenge in the authorization URL
\* is the S256 digest of the verifier generated for the attempt, the declared
\* method is S256 and the URL's state is the state callbacks are compared
\* against; the token request carries the code the callback delivered and, as
\* code_verifier, that same verifier and not the challenge.
C25_PkceBinding ==
  /\ lg.promise # "none"
       => /\ lg.authUrl.code_challenge = S256[lg.pkce.codeVerifier]
          /\ lg.authUrl.code_challenge_method = "S256"
          /\ lg.authUrl.state = lg.expectedState
          /\ lg.authUrl.host = lg.service
  /\ lg.tokenRequest # <<>>
       => /\ lg.tokenRequest.code_verifier = lg.pkce.codeVerifier
          /\ S256[lg.tokenRequest.code_verifier] = lg.authUrl.code_challenge
          /\ lg.tokenRequest.code_verifier # lg.authUrl.code_challenge
          /\ lg.tokenRequest.code = lg.req.code
          /\ lg.tokenRequest.redirect_uri = lg.authUrl.redirect_uri
          /\ lg.tokenRequest.client_id = lg.authUrl.client_id
          /\ lg.tokenRequest.host = lg.service
  /\ lg.pc \in {"exchange", "userinfo"} \/ "token" \in {lg.trace[i] : i \in DOMAIN lg.trace}
       => lg.pc = "exchange" \/ lg.tokenRequest # <<>>

\* C25 witness: an attempt with the second verifier has completed; the URL
\* carried its digest and the token request the verifier itself
C25_Witness ==
  /\ lg.pc = "done"
  /\ lg.result = "Authentication successful"
  /\ lg.pkce.codeVerifier = "v-2"
  /\ lg.authUrl.code_challenge = "h-2"
  /\ lg.tokenRequest.code_verifier = "v-2"
  /\ lg.tokenRequest.code = "c1"

\* the level LOG_LEVEL names: the number of the name it spells in any case,
\* INFO when it is unset or no such name
ConfiguredLevel(env) ==
  IF env # UNDEF /\ toUpperCase[env] \in Severities THEN LogLevel[toUpperCase[env]]
  ELSE LogLevel["INFO"]

\* C26 as claimed: a message of severity s reaches the console exactly when s
\* is at or above the level LOG_LEVEL names (INFO when LOG_LEVEL is unset or
\* none of the four names), on the console method of its severity; an error
\* message is emitted under every LOG_LEVEL.
C26_LevelFiltering ==
  last.op = "Logger"
  => \A i \in DOMAIN last.calls :
       LET call == last.calls[i]
       IN  /\ call.console # "none"
                <=> LogLevel[call.severity].n >= ConfiguredLevel(last.args.LOG_LEVEL).n
           /\ call.console \in {"none", ConsoleOf[call.severity]}
           /\ call.severity = "ERROR" => call.console = "error"

\* what the code does: the same for every LOG_LEVEL but the numerals 0 to 3,
\* which are keys of LogLevel too and set the level to a name, under which
\* no message of any severity is emitted
C26_ExceptNumerals ==
  last.op = "Logger"
  => \A i \in DOMAIN last.calls :
       LET call == last.calls[i]
       IN  IF last.args.LOG_LEVEL \in {"0", "1", "2", "3"}
           THEN call.console = "none"
           ELSE /\ call.console # "none"
                     <=> LogLevel[call.severity].n >= ConfiguredLevel(last.args.LOG_LEVEL).n
                /\ call.console \in {"none", ConsoleOf[call.severity]}

\* app select has accepted application a: it announced it as selected
AcceptedApplication(a) ==
  last.op = "appSelect" /\ last.result = "Selected application: " \o a

\* the stored environment of store c is unset or listed for application a
EnvironmentOf(c, a) ==
  \/ Get(ActiveAuth(c), "activeEnvironment") = UNDEF
  \/ \E i \in 1..Len(Environments[a]) :
       Environments[a][i] = Get(ActiveAuth(c), "activeEnvironment")

\* C27 as claimed: whenever app select accepts a target application, the
\* stored activeApplication is the target when the command returns and the
\* stored activeEnvironment is unset or an environment listed for the target,
\* whatever the environment listing gave.
C27_AppSelectPersists ==
  \A a \in DOMAIN Environments :
    AcceptedApplication(a)
    => /\ Get(ActiveAuth(After), "activeApplication") = a
       /\ EnvironmentOf(After, a)

\* what the code does: the same unless the target has no environments, when
\* the command returns with nothing saved and the store as it was
C27_ExceptNoEnvironments ==
  \A a \in DOMAIN Environments :
    AcceptedApplication(a)
    => IF Len(Environments[a]) = 0 /\ last.args.answers.envsUp
       THEN file = last.before
       ELSE /\ Get(ActiveAuth(After), "activeApplication") = a
            /\ EnvironmentOf(After, a)

\* C29 as claimed: after any sequence of org select, app select and env
\* select, the stored activeApplication, when set, is an application of the
\* stored activeOrganization, and the stored activeEnvironment, when set, is
\* an environment of the stored activeApplication.
C29_ContextConsistent ==
  LET auth == ActiveAuth(After)
      org == Get(auth, "activeOrganization")
      app == Get(auth, "activeApplication")
      env == Get(auth, "activeEnvironment")
  IN  /\ app # UNDEF
           => /\ org \in DOMAIN Applications
              /\ \E i \in 1..Len(Applications[org]) : Applications[org][i] = app
      /\ env # UNDEF
           => /\ app \in DOMAIN Environments
              /\ \E i \in 1..Len(Environments[app]) : Environments[app][i] = env

\* the callback wait has been settled, one way or the other
Settled == lg.promise \in {"resolved", "rejected"}

\* C28 as claimed: every request the listener receives on /callback settles
\* the login wait, is answered with a response and closes the listener, a
\* request with the matching state and neither code nor error included.
C28_EveryCallbackTerminal ==
  lg.req.path = "/callback"
  => /\ Settled
     /\ lg.response # "none"
     /\ lg.server = "closed"

\* what the code does: the same for every /callback request but the one with
\* the matching state and neither code nor error, which is left unanswered
\* with the wait pending and the listener open (until another request or the
\* timeout ends the wait)
C28_ExceptBareCallback ==
  lg.req.path = "/callback"
  => IF ~Truthy(lg.req.error) /\ lg.req.state = lg.expectedState /\ ~Truthy(lg.req.code)
     THEN /\ lg.response = "none"
          /\ lg.timer = "armed" => (lg.promise = "pending" /\ lg.server = "listening")
     ELSE /\ Settled
          /\ lg.response \in {"200", "400"}
          /\ lg.server = "closed"

\* C30: the callback wait settles at most once: once resolved or rejected, no
\* later callback, timeout or listen error changes its outcome.  A rejected
\* wait never leads to the token exchange or to a written credential, also
\* when a callback with the right state and a code is handled afterwards; a
\* resolved wait is never turned into a failure by the timeout that fires
\* afterwards.
C30_FirstTerminalEventWins ==
  /\ [][Settled => (lg'.promise = lg.promise /\ lg'.value = lg.value)]_vars
  /\ [](lg.promise = "rejected"
          => /\ lg.pc \in {"waiting", "failed"}
             /\ lg.pc = "failed" => lg.result = lg.value
             /\ lg.tokenRequest = <<>>
             /\ file = lg.start)
  /\ [](lg.promise = "resolved"
          => /\ lg.value = lg.req.code
             /\ lg.pc = "failed"
                  => lg.result \in {"Token exchange failed", "Failed to get user info"})

\* C30 witness: the wait was rejected by an error callback, a callback with
\* the right state and a code was handled afterwards, and the attempt failed
\* with the first error and wrote nothing
C30_Witness ==
  /\ lg.pc = "failed"
  /\ lg.req.error = "access_denied"
  /\ lg.late = [path |-> "/callback", code |-> "c1", state |-> GeneratedState, error |-> UNDEF]
  /\ lg.result = "OAuth error: access_denied"
  /\ file = lg.start
====
